---------------------------- MODULE Spec2Model ----------------------------
(***************************************************************************)
(* A model of my-gzip, a gzip (RFC 1952) / DEFLATE (RFC 1951) decompressor *)
(* written in Rust.  The pure parts of the program (RingBuffer, Writer,    *)
(* Reader, BinaryTrie, the block decoders) are operators on records; the   *)
(* specifications drive them:                                              *)
(*   SpecRB  any sequence of Writer operations on a small ring buffer      *)
(*   Spec    one run of decompress() over an input byte sequence           *)
(*   SpecReader  any sequence of Reader operations on a small source       *)
(*   SpecTrie    BinaryTrie::add calls or one build_tree, then a Cursor    *)
(*   SpecLengths the code lengths of one dynamic block, read and split     *)
(*   SpecPair    one length and distance pair of a Huffman block           *)
(* Rust indices are 0-based; sequences here are 1-based, so buf[i] of the  *)
(* source is buf[i + 1] here (see At / Slice).  A result of a fallible     *)
(* function is a record with a field err ("" for Ok) and, where the        *)
(* function can abort the program (assert!, unreachable!, an index out of  *)
(* bounds), a field panic ("" when it did not).                            *)
(***************************************************************************)
EXTENDS Integers, Sequences, FiniteSets, TLC

VARIABLES
    gz,         \* environment: the description of the input handed to decompress
    writer,     \* Writer { writer (the sink), ringbuf }
    reader,     \* Reader { reader (the byte source), current, pos }
    pc,         \* where the run stands
    outcome,    \* "running", "ok" (Ok returned), "err" (Err returned), "panic" (abort)
    total,      \* decompress: total_bytes (SpecReader: bits returned so far;
                \* SpecRB: pushes so far; -1 once another operation was called)
    flags,      \* decompress: GzipFlags
    op,         \* history: the last operation, its arguments and what it returned
    pre,        \* history: the Writer (SpecReader: the Reader) before the last operation
    admitted,   \* history: the number of bytes the operations asked the window to take
    log,        \* history: one record per block header the dispatcher has read
                \* (SpecTrie: the set of keys whose add succeeded)
    trie,       \* SpecTrie: the BinaryTrie (SpecLengths: the code length tree)
    cur         \* SpecTrie: the Cursor into trie

vars ==
    <<gz, writer, reader, pc, outcome, total, flags, op, pre, admitted, log,
      trie, cur>>

---------------------------------------------------------------------------
(* Bounds of the model *)

\* capacity of the ring buffer under SpecRB
Cap == 3
\* under SpecRB no operation starts once the sink holds MaxSink bytes
MaxSink == 4

---------------------------------------------------------------------------
(* Helpers *)

\* F(e), with e evaluated once
Bind(e, F(_)) == CHOOSE r \in {F(v) : v \in {e}} : TRUE

Min(a, b) == IF a < b THEN a ELSE b

\* s[i] with a 0-based index
At(s, i) == s[i + 1]

\* &s[a..b] with 0-based, half-open bounds
Slice(s, a, b) == SubSeq(s, a + 1, b)

\* s with s[i] = v, 0-based
SetAt(s, i, v) == [s EXCEPT ![i + 1] = v]

Zeros(n) == [i \in 1..n |-> 0]

\* n bytes that count up from v
Ramp(v, n) == [i \in 1..n |-> (v + i - 1) % 256]

---------------------------------------------------------------------------
(* ring_buffer.rs *)

RingBuffer_new(size) == [buf |-> <<>>, next |-> 0, cap |-> size]

RingBuffer_capacity(rb) == rb.cap

RingBuffer_is_wrapped(rb) == Len(rb.buf) = RingBuffer_capacity(rb)

RingBuffer_len(rb) ==
    IF RingBuffer_is_wrapped(rb) THEN RingBuffer_capacity(rb) ELSE rb.next

\* mutation of RingBuffer_push: a full buffer overwrites its newest byte
RingBuffer_push_Newest(rb, value) ==
    [rb EXCEPT !.buf = IF RingBuffer_is_wrapped(rb)
                       THEN SetAt(rb.buf,
                                  (rb.next + RingBuffer_capacity(rb) - 1)
                                    % RingBuffer_capacity(rb),
                                  value)
                       ELSE Append(rb.buf, value),
               !.next = IF rb.next + 1 = RingBuffer_capacity(rb) THEN 0
                        ELSE rb.next + 1]

RingBuffer_push(rb, value) ==
    [rb EXCEPT !.buf = IF RingBuffer_is_wrapped(rb)
                       THEN SetAt(rb.buf, rb.next, value)
                       ELSE Append(rb.buf, value),
               !.next = IF rb.next + 1 = RingBuffer_capacity(rb) THEN 0
                        ELSE rb.next + 1]

\* (first, second) as one record
RingBuffer_as_slices(rb) ==
    IF RingBuffer_is_wrapped(rb)
    THEN [first |-> Slice(rb.buf, rb.next, Len(rb.buf)),
          second |-> Slice(rb.buf, 0, rb.next)]
    ELSE [first |-> Slice(rb.buf, 0, rb.next), second |-> <<>>]

\* for i in i..to { buf.push(buf[base + i]) }
RECURSIVE CopyWithinPushLoop(_, _, _, _)
CopyWithinPushLoop(buf, base, i, to) ==
    IF i >= to THEN buf
    ELSE CopyWithinPushLoop(Append(buf, At(buf, base + i)), base, i + 1, to)

\* A mutant of the loop below: every byte is read from the buffer as it was
\* before the loop (a block copy), so earlier writes are not observed.
CopyWithinWriteLoop_Snapshot(buf, next, start, cap, i, to) ==
    [j \in 1..Len(buf) |->
        IF \E k \in i..(to - 1) : (next + k) % cap = j - 1
        THEN At(buf, (start + (CHOOSE k \in i..(to - 1) : (next + k) % cap = j - 1))
                        % cap)
        ELSE buf[j]]

\* for i in i..to { buf[(next + i) % cap] = buf[(start + i) % cap] }
RECURSIVE CopyWithinWriteLoop(_, _, _, _, _, _)
CopyWithinWriteLoop(buf, next, start, cap, i, to) ==
    IF i >= to THEN buf
    ELSE CopyWithinWriteLoop(
            SetAt(buf, (next + i) % cap, At(buf, (start + i) % cap)),
            next, start, cap, i + 1, to)

\* mutation of WrittenSlices: a cursor that is back where it was has not
\* wrapped
WrittenSlices_Strict(rb, old_next, err, panic) ==
    IF rb.next < old_next
    THEN [rb |-> rb, first |-> Slice(rb.buf, old_next, Len(rb.buf)),
          second |-> Slice(rb.buf, 0, rb.next), err |-> err, panic |-> panic]
    ELSE [rb |-> rb, first |-> Slice(rb.buf, old_next, rb.next),
          second |-> <<>>, err |-> err, panic |-> panic]

\* what copy_within and copy_from return: the slices from old_next to next
WrittenSlices(rb, old_next, err, panic) ==
    IF rb.next <= old_next
    THEN [rb |-> rb, first |-> Slice(rb.buf, old_next, Len(rb.buf)),
          second |-> Slice(rb.buf, 0, rb.next), err |-> err, panic |-> panic]
    ELSE [rb |-> rb, first |-> Slice(rb.buf, old_next, rb.next),
          second |-> <<>>, err |-> err, panic |-> panic]

\* nothing returned: an Err, or the program aborted
NoSlices(rb, err, panic) ==
    [rb |-> rb, first |-> <<>>, second |-> <<>>, err |-> err, panic |-> panic]

\* copy_within once its three assert!s have passed
CopyWithinBody(rb, distance, length) ==
    LET cap == RingBuffer_capacity(rb)
        start == rb.next + cap - distance
        elements_to_be_pushed == Min(length, cap - RingBuffer_len(rb))
    IN  WrittenSlices(
            [rb EXCEPT
                !.buf = CopyWithinWriteLoop(
                            CopyWithinPushLoop(rb.buf, start - cap, 0,
                                               elements_to_be_pushed),
                            rb.next, start, cap, elements_to_be_pushed, length),
                !.next = (rb.next + length) % cap],
            rb.next, "", "")

\* A failed assert! aborts the program: panic is its message.
RingBuffer_copy_within(rb, distance, length) ==
    IF ~(distance > 0)
    THEN NoSlices(rb, "", "distance must not be 0")
    ELSE IF ~(RingBuffer_is_wrapped(rb) \/ distance <= rb.next)
    THEN NoSlices(rb, "", "distance too long for current buffer")
    ELSE IF ~(length <= RingBuffer_capacity(rb))
    THEN NoSlices(rb, "", "specified length is longer than ringbuffer's capacity")
    ELSE CopyWithinBody(rb, distance, length)

---------------------------------------------------------------------------
(* The byte source R: Read under a Reader, or under copy_from in the       *)
(* ring buffer's own tests.  Its bytes are data, then zeros bytes of       *)
(* value 0 (a long run is kept as its length), then tail; off is the       *)
(* offset of the next byte, and chunk the most bytes one read() call       *)
(* delivers (0: as many as asked for).                                     *)

LongSource(data, zeros, tail, chunk) ==
    [data |-> data, zeros |-> zeros, tail |-> tail, off |-> 0, chunk |-> chunk]

Source(data, chunk) == LongSource(data, 0, <<>>, chunk)

\* the number of bytes of input i (a source, or a stream), byte k of it
\* counted from 0, and its bytes a..b-1
InputLen(i) == Len(i.data) + i.zeros + Len(i.tail)

InputAt(i, k) ==
    IF k < Len(i.data) THEN i.data[k + 1]
    ELSE IF k < Len(i.data) + i.zeros THEN 0
    ELSE i.tail[k - Len(i.data) - i.zeros + 1]

InputSlice(i, a, b) == [k \in 1..(b - a) |-> InputAt(i, a + k - 1)]

\* R::read(&mut buf) with buf.len() = n: the bytes delivered (none at the end)
Source_read(src, n) ==
    LET avail == InputLen(src) - src.off
        want == IF src.chunk = 0 THEN n ELSE Min(n, src.chunk)
        k == Min(want, avail)
    IN  [reader |-> [src EXCEPT !.off = src.off + k],
         bytes |-> InputSlice(src, src.off, src.off + k)]

---------------------------------------------------------------------------
(* reader.rs *)

\* the size of copy_to's buffer
CopyBufSize == 8192

Reader_new(r) == [reader |-> r, current |-> 0, pos |-> 0]

\* Ok(None) at the end of the source (some = FALSE), Ok(Some(())) otherwise;
\* a source error (std::io::Error) is not modelled: the source is a byte
\* sequence, and a read that is retried after Interrupted changes nothing.
Reader_read_next_byte(self) ==
    Bind(Source_read(self.reader, 1), LAMBDA rd :
        IF Len(rd.bytes) = 0
        THEN [self |-> [self EXCEPT !.reader = rd.reader, !.pos = 8],
              some |-> FALSE]
        ELSE [self |-> [self EXCEPT !.reader = rd.reader,
                                    !.current = rd.bytes[1], !.pos = 0],
              some |-> TRUE])

\* mutation of Reader_next_bit: the end of the source, found by the fetch
\* after the 8th bit, is an error of this call
Reader_next_bit_FailsAtEnd(self) ==
    IF self.pos >= 8
    THEN [self |-> self, bit |-> FALSE, err |-> "finished"]
    ELSE IF self.pos + 1 >= 8
            /\ ~Reader_read_next_byte([self EXCEPT !.pos = self.pos + 1]).some
    THEN [self |-> Reader_read_next_byte([self EXCEPT !.pos = self.pos + 1]).self,
          bit |-> FALSE, err |-> "finished"]
    ELSE [self |-> IF self.pos + 1 >= 8
                   THEN Reader_read_next_byte([self EXCEPT !.pos = self.pos + 1]).self
                   ELSE [self EXCEPT !.pos = self.pos + 1],
          bit |-> ((self.current \div (2 ^ self.pos)) % 2) > 0,
          err |-> ""]

Reader_next_bit(self) ==
    IF self.pos >= 8
    THEN [self |-> self, bit |-> FALSE, err |-> "finished"]
    ELSE [self |-> IF self.pos + 1 >= 8
                   THEN Reader_read_next_byte([self EXCEPT !.pos = self.pos + 1]).self
                   ELSE [self EXCEPT !.pos = self.pos + 1],
          bit |-> ((self.current \div (2 ^ self.pos)) % 2) > 0,
          err |-> ""]

\* mutation of Reader_ensure_byte_boundary: a byte partly consumed is kept
Reader_ensure_byte_boundary_Keep(self) == [self |-> self, err |-> ""]

Reader_ensure_byte_boundary(self) ==
    IF self.pos = 0
    THEN [self |-> self, err |-> ""]
    ELSE Bind(Reader_read_next_byte(self), LAMBDA n :
            [self |-> n.self, err |-> IF n.some THEN "" ELSE "no more bytes"])

\* mutation of Reader_next_byte: at the end of the source the byte is 0
Reader_next_byte_ZeroAtEnd(self) ==
    Bind(Reader_ensure_byte_boundary(self), LAMBDA a :
        IF a.err # ""
        THEN [self |-> a.self, byte |-> 0, err |-> ""]
        ELSE [self |-> Reader_read_next_byte(a.self).self,
              byte |-> a.self.current, err |-> ""])

Reader_next_byte(self) ==
    Bind(Reader_ensure_byte_boundary(self), LAMBDA a :
        IF a.err # ""
        THEN [self |-> a.self, byte |-> 0, err |-> a.err]
        ELSE [self |-> Reader_read_next_byte(a.self).self,
              byte |-> a.self.current, err |-> ""])

\* [next_byte()?, next_byte()?, ...]: n calls in turn, until one fails
RECURSIVE NextBytes(_, _, _)
NextBytes(self, n, acc) ==
    IF n = 0
    THEN [self |-> self, bytes |-> acc, err |-> ""]
    ELSE Bind(Reader_next_byte(self), LAMBDA b :
            IF b.err # ""
            THEN [self |-> b.self, bytes |-> acc, err |-> b.err]
            ELSE NextBytes(b.self, n - 1, Append(acc, b.byte)))

\* A destination W: Write of copy_to; the program uses two: a &mut [u8] of
\* n bytes (room left, data written so far) and std::io::sink().
SliceWriter(n) == [kind |-> "slice", room |-> n, data |-> <<>>]

SinkWriter == [kind |-> "sink", room |-> 0, data |-> <<>>]

\* W::write_all(buf): a slice takes what fits and fails (WriteZero) on the rest
Write_write_all(w, buf) ==
    IF w.kind = "sink"
    THEN [writer |-> w, err |-> ""]
    ELSE [writer |-> [w EXCEPT !.room = w.room - Min(Len(buf), w.room),
                               !.data = w.data \o SubSeq(buf, 1, Min(Len(buf), w.room))],
          err |-> IF w.room < Len(buf) THEN "failed to write whole buffer" ELSE ""]

\* buf with bytes copied to its front
Overlay(buf, bytes) ==
    [i \in 1..Len(buf) |-> IF i <= Len(bytes) THEN bytes[i] ELSE buf[i]]

\* 'outer: while remain > 0 { ... }.  buf is the 8192-byte array, of which
\* only the first min(length, 8192) bytes are ever used and are kept here;
\* write_all(buf) writes the whole slice, not only the bytes just read.
RECURSIVE CopyToLoop(_, _, _, _)
CopyToLoop(self, writer_, buf, remain) ==
    IF ~(remain > 0)
    THEN [self |-> self, writer |-> writer_, remain |-> remain, err |-> ""]
    ELSE
    Bind(Source_read(self.reader, Min(remain, CopyBufSize)), LAMBDA rd :
        IF Len(rd.bytes) = 0
        THEN [self |-> [self EXCEPT !.reader = rd.reader], writer |-> writer_,
              remain |-> remain, err |-> ""]
        ELSE
        Bind(Write_write_all(writer_, SubSeq(Overlay(buf, rd.bytes), 1,
                                             Min(remain, CopyBufSize))),
             LAMBDA wr :
                IF wr.err # ""
                THEN [self |-> [self EXCEPT !.reader = rd.reader],
                      writer |-> wr.writer, remain |-> remain, err |-> wr.err]
                ELSE CopyToLoop([self EXCEPT !.reader = rd.reader], wr.writer,
                                Overlay(buf, rd.bytes), remain - Len(rd.bytes))))

Reader_copy_to(self, writer_, length) ==
    Bind(Reader_ensure_byte_boundary(self), LAMBDA a :
        IF a.err # ""
        THEN [self |-> a.self, writer |-> writer_, n |-> 0, err |-> a.err]
        ELSE
        Bind(CopyToLoop(a.self, writer_, Zeros(Min(length, CopyBufSize)), length),
             LAMBDA l :
                IF l.err # ""
                THEN [self |-> l.self, writer |-> l.writer, n |-> 0, err |-> l.err]
                ELSE [self |-> Reader_read_next_byte(l.self).self,
                      writer |-> l.writer, n |-> length - l.remain, err |-> ""]))

Reader_skip(self, length) ==
    Bind(Reader_ensure_byte_boundary(self), LAMBDA a :
        IF a.err # ""
        THEN [self |-> a.self, writer |-> SinkWriter, n |-> 0, err |-> a.err]
        ELSE Reader_copy_to(a.self, SinkWriter, length))

\* impl Read for Reader: read(&mut buf) with buf.len() = n
Reader_read(self, n) ==
    IF n = 0
    THEN [reader |-> self, bytes |-> <<>>]
    ELSE
    Bind(Source_read(self.reader, IF self.pos = 0 THEN n - 1 ELSE n), LAMBDA rd :
        [reader |-> Reader_read_next_byte([self EXCEPT !.reader = rd.reader]).self,
         bytes |-> IF self.pos = 0 THEN <<self.current>> \o rd.bytes
                   ELSE rd.bytes])

---------------------------------------------------------------------------
(* std::io::Read for the two readers that are handed to copy_from *)

IsReader(r) == "pos" \in DOMAIN r

Read_read(r, n) == IF IsReader(r) THEN Reader_read(r, n) ELSE Source_read(r, n)

\* Read::read_exact (the default method): read until buf is full or a read
\* returns 0; the bytes read so far are in buf either way.
RECURSIVE Read_read_exact_loop(_, _, _)
Read_read_exact_loop(r, n, acc) ==
    IF n = 0
    THEN [reader |-> r, bytes |-> acc, ok |-> TRUE]
    ELSE Bind(Read_read(r, n), LAMBDA rd :
            IF Len(rd.bytes) = 0
            THEN [reader |-> rd.reader, bytes |-> acc, ok |-> FALSE]
            ELSE Read_read_exact_loop(rd.reader, n - Len(rd.bytes),
                                      acc \o rd.bytes))

\* mutation of Read_read_exact: a source that ends early is no error, the
\* rest of buf is 0
Read_read_exact_Lenient(r, n) ==
    [reader |-> Read_read_exact_loop(r, n, <<>>).reader,
     bytes |-> Overlay(Zeros(n), Read_read_exact_loop(r, n, <<>>).bytes),
     ok |-> TRUE]

Read_read_exact(r, n) == Read_read_exact_loop(r, n, <<>>)

---------------------------------------------------------------------------
(* ring_buffer.rs: copy_from, and writer.rs *)

\* buf with bytes stored from (0-based) index at on
StoreAt(buf, at, bytes) ==
    [i \in 1..Len(buf) |->
        IF i - 1 >= at /\ i - 1 < at + Len(bytes) THEN bytes[i - at] ELSE buf[i]]

\* a step of copy_from: what is left to copy, and whether a read failed
CopyFromState(rb, r, length, ok) ==
    [rb |-> rb, reader |-> r, length |-> length, ok |-> ok]

\* mutation of CopyFromFill: the storage is extended before read_exact
\* fills it, and stays so when the read fails
CopyFromFill_ExtendFirst(c) ==
    IF RingBuffer_is_wrapped(c.rb)
    THEN c
    ELSE
    LET elements_to_be_pushed ==
            Min(c.length, RingBuffer_capacity(c.rb) - c.rb.next)
    IN  Bind(Read_read_exact(c.reader, elements_to_be_pushed), LAMBDA rd :
            IF ~rd.ok
            THEN CopyFromState(
                    [c.rb EXCEPT
                        !.buf = c.rb.buf
                                \o Overlay(Zeros(elements_to_be_pushed), rd.bytes)],
                    rd.reader, c.length, FALSE)
            ELSE CopyFromState(
                    [c.rb EXCEPT
                        !.buf = c.rb.buf \o rd.bytes,
                        !.next = (c.rb.next + elements_to_be_pushed)
                                    % RingBuffer_capacity(c.rb)],
                    rd.reader, c.length - elements_to_be_pushed, TRUE))

\* if !self.is_wrapped() { ... }
CopyFromFill(c) ==
    IF RingBuffer_is_wrapped(c.rb)
    THEN c
    ELSE
    LET elements_to_be_pushed ==
            Min(c.length, RingBuffer_capacity(c.rb) - c.rb.next)
    IN  Bind(Read_read_exact(c.reader, elements_to_be_pushed), LAMBDA rd :
            IF ~rd.ok
            THEN CopyFromState(c.rb, rd.reader, c.length, FALSE)
            ELSE CopyFromState(
                    [c.rb EXCEPT
                        !.buf = c.rb.buf \o rd.bytes,
                        !.next = (c.rb.next + elements_to_be_pushed)
                                    % RingBuffer_capacity(c.rb)],
                    rd.reader, c.length - elements_to_be_pushed, TRUE))

\* mutation of CopyFromFirst: the bytes are stored from index 0 on
CopyFromFirst_FromStart(c) ==
    LET n == Min(c.length, Len(c.rb.buf) - c.rb.next)
    IN  Bind(Read_read_exact(c.reader, n), LAMBDA rd :
            CopyFromState([c.rb EXCEPT !.buf = StoreAt(c.rb.buf, 0, rd.bytes)],
                          rd.reader, c.length - n, rd.ok))

\* reader.read_exact(&mut first[..length]), or reader.read_exact(first)
CopyFromFirst(c) ==
    LET n == Min(c.length, Len(c.rb.buf) - c.rb.next)
    IN  Bind(Read_read_exact(c.reader, n), LAMBDA rd :
            CopyFromState([c.rb EXCEPT !.buf = StoreAt(c.rb.buf, c.rb.next, rd.bytes)],
                          rd.reader, c.length - n, rd.ok))

\* reader.read_exact(&mut second[..remainder]), then self.next is set
CopyFromSecond(c, length) ==
    Bind(Read_read_exact(c.reader, c.length), LAMBDA rd :
        CopyFromState(
            [c.rb EXCEPT
                !.buf = StoreAt(c.rb.buf, 0, rd.bytes),
                !.next = IF rd.ok
                         THEN (c.rb.next + length) % RingBuffer_capacity(c.rb)
                         ELSE c.rb.next],
            rd.reader, 0, rd.ok))

\* if length > 0 { ... }
CopyFromWrapped(c) ==
    IF ~c.ok \/ ~(c.length > 0)
    THEN c
    ELSE Bind(CopyFromFirst(c), LAMBDA f :
            IF ~f.ok THEN f ELSE CopyFromSecond(f, c.length))

\* mutation of RingBuffer_copy_from: a length of 0 is not returned early
RingBuffer_copy_from_NoEarlyReturn(rb, r, length) ==
    IF ~(length <= RingBuffer_capacity(rb))
    THEN NoSlices(rb, "", "specified length is longer than ringbuffer's capacity")
         @@ [reader |-> r]
    ELSE Bind(CopyFromWrapped(CopyFromFill(CopyFromState(rb, r, length, TRUE))),
              LAMBDA c :
                 IF ~c.ok
                 THEN NoSlices(c.rb, "failed to fill whole buffer", "")
                      @@ [reader |-> c.reader]
                 ELSE WrittenSlices(c.rb, rb.next, "", "") @@ [reader |-> c.reader])

RingBuffer_copy_from(rb, r, length) ==
    IF ~(length <= RingBuffer_capacity(rb))
    THEN NoSlices(rb, "", "specified length is longer than ringbuffer's capacity")
         @@ [reader |-> r]
    ELSE IF length = 0
    THEN NoSlices(rb, "", "") @@ [reader |-> r]
    ELSE Bind(CopyFromWrapped(CopyFromFill(CopyFromState(rb, r, length, TRUE))),
              LAMBDA c :
                 IF ~c.ok
                 THEN NoSlices(c.rb, "failed to fill whole buffer", "")
                      @@ [reader |-> c.reader]
                 ELSE WrittenSlices(c.rb, rb.next, "", "") @@ [reader |-> c.reader])

\* The sink W takes every write: a failing sink (IoError) is not modelled.
Writer_new(writer_, buf_size) ==
    [writer |-> writer_, ringbuf |-> RingBuffer_new(buf_size)]

Writer_copy_from(self, r, length) ==
    Bind(RingBuffer_copy_from(self.ringbuf, r, length), LAMBDA c :
        [self |-> [self EXCEPT !.ringbuf = c.rb,
                               !.writer = self.writer \o c.first \o c.second],
         reader |-> c.reader, err |-> c.err, panic |-> c.panic])

Writer_copy_within(self, distance, length) ==
    Bind(RingBuffer_copy_within(self.ringbuf, distance, length), LAMBDA c :
        [self |-> [self EXCEPT !.ringbuf = c.rb,
                               !.writer = self.writer \o c.first \o c.second],
         n |-> Len(c.first) + Len(c.second), panic |-> c.panic])

\* mutation of Writer_push: the byte goes to the sink and not to the window
Writer_push_SinkOnly(self, value) ==
    [self EXCEPT !.writer = Append(self.writer, value)]

Writer_push(self, value) ==
    [self EXCEPT !.ringbuf = RingBuffer_push(self.ringbuf, value),
                 !.writer = Append(self.writer, value)]

---------------------------------------------------------------------------
(* tree.rs.  A BinaryTrie is the set of its nodes: a function from the     *)
(* path of bits that leads from the root (<<>>) to a node, to the value    *)
(* of that node, an Option<u64>.                                           *)

None == <<>>

Some(v) == <<v>>

get_bit(n, i) == ((n \div (2 ^ i)) % 2) = 1

\* where the child of node at bit is: &self.one or &self.zero
Child(node, bit) == Append(node, bit)

Node_is_leaf(tree, node) == tree[node] # None

\* mutation of Node_follow: one for a 0 bit, zero for a 1 bit
Node_follow_Swapped(tree, node, bit) ==
    IF Child(node, ~bit) \notin DOMAIN tree
    THEN [node |-> node,
          err |-> IF Node_is_leaf(tree, node)
                  THEN "Attempted to follow from leaf"
                  ELSE "Attempted to follow from non-leaf node without child"]
    ELSE [node |-> Child(node, ~bit), err |-> ""]

Node_follow(tree, node, bit) ==
    IF Child(node, bit) \notin DOMAIN tree
    THEN [node |-> node,
          err |-> IF Node_is_leaf(tree, node)
                  THEN "Attempted to follow from leaf"
                  ELSE "Attempted to follow from non-leaf node without child"]
    ELSE [node |-> Child(node, bit), err |-> ""]

\* mutation of Node_add: a child that exists is replaced
Node_add_Overwrite(tree, node, bit, value) ==
    [tree |-> [p \in DOMAIN tree \cup {Child(node, bit)} |->
                    IF p = Child(node, bit) THEN value ELSE tree[p]],
     err |-> ""]

Node_add(tree, node, bit, value) ==
    IF Child(node, bit) \in DOMAIN tree
    THEN [tree |-> tree, err |-> "child already exists"]
    ELSE [tree |-> tree @@ (Child(node, bit) :> value), err |-> ""]

Node_follow_or_add(tree, node, bit, value) ==
    [tree |-> IF Child(node, bit) \in DOMAIN tree
              THEN tree
              ELSE tree @@ (Child(node, bit) :> value),
     node |-> Child(node, bit)]

BinaryTrie_new == (<<>> :> None)

\* mutation of BinaryTrie_add_loop: the child is made before the node is
\* found to be a leaf
RECURSIVE BinaryTrie_add_loop_ChildFirst(_, _, _, _)
BinaryTrie_add_loop_ChildFirst(tree, node, key, i) ==
    IF i < 1
    THEN [tree |-> tree, node |-> node, err |-> ""]
    ELSE Bind(Node_follow_or_add(tree, node, get_bit(key, i), None), LAMBDA f :
            IF Node_is_leaf(tree, node)
            THEN [tree |-> f.tree, node |-> node,
                  err |-> "cannot add descendant node to leaf node"]
            ELSE BinaryTrie_add_loop_ChildFirst(f.tree, f.node, key, i - 1))

\* for i in (1..len).rev() { ... }: from i down to 1
RECURSIVE BinaryTrie_add_loop(_, _, _, _)
BinaryTrie_add_loop(tree, node, key, i) ==
    IF i < 1
    THEN [tree |-> tree, node |-> node, err |-> ""]
    ELSE IF Node_is_leaf(tree, node)
    THEN [tree |-> tree, node |-> node,
          err |-> "cannot add descendant node to leaf node"]
    ELSE Bind(Node_follow_or_add(tree, node, get_bit(key, i), None), LAMBDA f :
            BinaryTrie_add_loop(f.tree, f.node, key, i - 1))

\* add(TreeKey(key, len), value); the trie is returned as the call left it
BinaryTrie_add(tree, key, len, value) ==
    IF ~(len > 0)
    THEN [tree |-> tree, err |-> "key bit length must be positive"]
    ELSE
    Bind(BinaryTrie_add_loop(tree, <<>>, key, len - 1), LAMBDA l :
        IF l.err # ""
        THEN [tree |-> l.tree, err |-> l.err]
        ELSE IF Node_is_leaf(l.tree, l.node)
        THEN [tree |-> l.tree, err |-> "cannot add descendant node to leaf node"]
        ELSE Bind(Node_add(l.tree, l.node, get_bit(key, 0), Some(value)),
                  LAMBDA a :
                     [tree |-> a.tree,
                      err |-> IF a.err # ""
                              THEN "cannot add leaf node, which already exists"
                              ELSE ""]))

\* a Cursor is the node it stands on
BinaryTrie_cursor(tree) == <<>>

\* mutation of Cursor_follow: the cursor moves before the result is known
Cursor_follow_Moves(tree, cursor, bit) ==
    Bind(Node_follow(tree, cursor, bit), LAMBDA f :
        IF f.err # ""
        THEN [cursor |-> Child(cursor, bit), leaf |-> None, err |-> f.err]
        ELSE [cursor |-> f.node, leaf |-> tree[f.node], err |-> ""])

\* leaf is Some(v) for NodeType::LeafNode(v), None for NodeType::InnerNode
Cursor_follow(tree, cursor, bit) ==
    Bind(Node_follow(tree, cursor, bit), LAMBDA f :
        IF f.err # ""
        THEN [cursor |-> cursor, leaf |-> None, err |-> f.err]
        ELSE [cursor |-> f.node, leaf |-> tree[f.node], err |-> ""])

---------------------------------------------------------------------------
(* decompress/huffman.rs *)

\* for i in i..bits { if reader.next_bit()? { ret |= 1 << i } }
RECURSIVE read_number_le_loop(_, _, _, _)
read_number_le_loop(r, bits, i, ret) ==
    IF i >= bits
    THEN [reader |-> r, n |-> ret, err |-> ""]
    ELSE Bind(Reader_next_bit(r), LAMBDA b :
            IF b.err # ""
            THEN [reader |-> b.self, n |-> ret, err |-> b.err]
            ELSE read_number_le_loop(b.self, bits, i + 1,
                                     IF b.bit THEN ret + 2 ^ i ELSE ret))

read_number_le(r, bits) == read_number_le_loop(r, bits, 0, 0)

BITS_UPPER_BOUND == 16

\* *lengths.iter().max(), of a slice that is not empty
MaxOf(lengths) ==
    CHOOSE m \in {lengths[i] : i \in DOMAIN lengths} :
        \A i \in DOMAIN lengths : lengths[i] <= m

\* counts[index] += 1 for every length
Counts(lengths) ==
    [b \in 0..(BITS_UPPER_BOUND - 1) |->
        Cardinality({i \in DOMAIN lengths : lengths[i] = b})]

\* mutation of NextCodeLoop: the sum is not shifted
RECURSIVE NextCodeLoop_NoShift(_, _, _, _)
NextCodeLoop_NoShift(next_code, counts, bits, max_bits) ==
    IF bits > max_bits
    THEN next_code
    ELSE NextCodeLoop_NoShift(
            [next_code EXCEPT ![bits] = next_code[bits - 1] + counts[bits - 1]],
            counts, bits + 1, max_bits)

\* for bits in bits..=max_bits { next_code[bits] = ... << 1 }
RECURSIVE NextCodeLoop(_, _, _, _)
NextCodeLoop(next_code, counts, bits, max_bits) ==
    IF bits > max_bits
    THEN next_code
    ELSE NextCodeLoop(
            [next_code EXCEPT ![bits] = (next_code[bits - 1] + counts[bits - 1]) * 2],
            counts, bits + 1, max_bits)

\* mutation of BuildTreeStep: the width of the code is not checked
BuildTreeStep_NoWidthCheck(lengths, n, b) ==
    IF b.err # "" \/ At(lengths, n) = 0
    THEN b
    ELSE Bind(BinaryTrie_add(b.tree, b.next_code[At(lengths, n)],
                             At(lengths, n), n),
              LAMBDA a :
                 [tree |-> a.tree,
                  next_code |-> [b.next_code EXCEPT ![At(lengths, n)] = @ + 1],
                  err |-> a.err])

\* the body of `for (n, &length) in lengths.iter().enumerate()`; b is the
\* tree and next_code so far, with the error that ended the loop, if any
BuildTreeStep(lengths, n, b) ==
    IF b.err # "" \/ At(lengths, n) = 0
    THEN b
    ELSE IF b.next_code[At(lengths, n)] >= 2 ^ At(lengths, n)
    THEN [b EXCEPT !.err = "code turned out to be longer than expected"]
    ELSE Bind(BinaryTrie_add(b.tree, b.next_code[At(lengths, n)],
                             At(lengths, n), n),
              LAMBDA a :
                 [tree |-> a.tree,
                  next_code |-> [b.next_code EXCEPT ![At(lengths, n)] = @ + 1],
                  err |-> a.err])

\* the loop for n in from..to, in order: its first half, then its second
RECURSIVE BuildTreeLoop(_, _, _, _)
BuildTreeLoop(lengths, from, to, b) ==
    IF from >= to
    THEN b
    ELSE IF from + 1 = to
    THEN BuildTreeStep(lengths, from, b)
    ELSE Bind(BuildTreeLoop(lengths, from, (from + to) \div 2, b), LAMBDA h :
            BuildTreeLoop(lengths, (from + to) \div 2, to, h))

\* The lengths are code lengths of at most 15 (read as 3 bits, or symbols
\* 0..15 of the code length alphabet), so max_bits < BITS_UPPER_BOUND.
build_tree(lengths) ==
    IF Len(lengths) = 0
    THEN [tree |-> BinaryTrie_new, err |-> "cannot build tree from empty slice"]
    ELSE Bind(BuildTreeLoop(
                lengths, 0, Len(lengths),
                [tree |-> BinaryTrie_new,
                 next_code |-> NextCodeLoop([b \in 0..(BITS_UPPER_BOUND - 1) |-> 0],
                                            Counts(lengths), 2, MaxOf(lengths)),
                 err |-> ""]),
              LAMBDA b : [tree |-> b.tree, err |-> b.err])

\* loop { let bit = reader.next_bit()?; ... cursor.follow(bit)? ... }
RECURSIVE read_next_code_loop(_, _, _)
read_next_code_loop(r, tree, cursor) ==
    Bind(Reader_next_bit(r), LAMBDA b :
        IF b.err # ""
        THEN [reader |-> b.self, v |-> 0, err |-> b.err]
        ELSE Bind(Cursor_follow(tree, cursor, b.bit), LAMBDA f :
                IF f.err # ""
                THEN [reader |-> b.self, v |-> 0, err |-> f.err]
                ELSE IF f.leaf # None
                THEN [reader |-> b.self, v |-> f.leaf[1], err |-> ""]
                ELSE read_next_code_loop(b.self, tree, f.cursor)))

read_next_code(r, tree) == read_next_code_loop(r, tree, BinaryTrie_cursor(tree))

\* mutation of RepeatInfo: 18 repeats from 3 times on, as 17 does
RepeatInfo_SameAddend(c) ==
    IF c = 16 THEN <<2, 3>> ELSE IF c = 17 THEN <<3, 3>> ELSE <<7, 3>>

\* the number of extra bits and the addend of the symbols 16, 17 and 18
RepeatInfo(c) ==
    IF c = 16 THEN <<2, 3>> ELSE IF c = 17 THEN <<3, 3>> ELSE <<7, 11>>

\* while remain > 0 { ... }; w is the Vec the lengths are written to
RECURSIVE read_code_lengths_loop(_, _, _, _, _)
read_code_lengths_loop(r, w, tree, remain, prev) ==
    IF ~(remain > 0)
    THEN [reader |-> r, writer |-> w, err |-> "", panic |-> ""]
    ELSE
    Bind(read_next_code(r, tree), LAMBDA c :
        IF c.err # ""
        THEN [reader |-> c.reader, writer |-> w, err |-> c.err, panic |-> ""]
        ELSE IF c.v <= 15
        THEN read_code_lengths_loop(c.reader, Append(w, c.v), tree, remain - 1,
                                    Some(c.v))
        ELSE IF c.v > 18
        THEN [reader |-> c.reader, writer |-> w, err |-> "",
              panic |-> "internal error: entered unreachable code"]
        ELSE
        Bind(read_number_le(c.reader, RepeatInfo(c.v)[1]), LAMBDA n :
            IF n.err # ""
            THEN [reader |-> n.reader, writer |-> w, err |-> n.err, panic |-> ""]
            ELSE IF ~(n.n + RepeatInfo(c.v)[2] <= remain)
            THEN [reader |-> n.reader, writer |-> w, err |-> "too long",
                  panic |-> ""]
            ELSE IF c.v = 16 /\ prev = None
            THEN [reader |-> n.reader, writer |-> w, err |-> "no previous value",
                  panic |-> ""]
            ELSE read_code_lengths_loop(
                    n.reader,
                    w \o [i \in 1..(n.n + RepeatInfo(c.v)[2]) |->
                            IF c.v = 16 THEN prev[1] ELSE 0],
                    tree, remain - (n.n + RepeatInfo(c.v)[2]),
                    IF c.v = 16 THEN prev ELSE Some(0))))

\* mutation of read_code_lengths: the previous length is 0 at the start
read_code_lengths_PrevZero(r, w, tree, count) ==
    read_code_lengths_loop(r, w, tree, count, Some(0))

read_code_lengths(r, w, tree, count) ==
    read_code_lengths_loop(r, w, tree, count, None)

\* mutation of LENGTH_INFO: the lengths of symbol 284 begin at 228
LENGTH_INFO_From228 ==
    <<  <<0, 3>>, <<0, 4>>, <<0, 5>>, <<0, 6>>, <<0, 7>>, <<0, 8>>, <<0, 9>>,
        <<0, 10>>,
        <<1, 11>>, <<1, 13>>, <<1, 15>>, <<1, 17>>,
        <<2, 19>>, <<2, 23>>, <<2, 27>>, <<2, 31>>,
        <<3, 35>>, <<3, 43>>, <<3, 51>>, <<3, 59>>,
        <<4, 67>>, <<4, 83>>, <<4, 99>>, <<4, 115>>,
        <<5, 131>>, <<5, 163>>, <<5, 195>>, <<5, 228>>,
        <<0, 258>>  >>

LENGTH_INFO ==
    <<  <<0, 3>>, <<0, 4>>, <<0, 5>>, <<0, 6>>, <<0, 7>>, <<0, 8>>, <<0, 9>>,
        <<0, 10>>,
        <<1, 11>>, <<1, 13>>, <<1, 15>>, <<1, 17>>,
        <<2, 19>>, <<2, 23>>, <<2, 27>>, <<2, 31>>,
        <<3, 35>>, <<3, 43>>, <<3, 51>>, <<3, 59>>,
        <<4, 67>>, <<4, 83>>, <<4, 99>>, <<4, 115>>,
        <<5, 131>>, <<5, 163>>, <<5, 195>>, <<5, 227>>,
        <<0, 258>>  >>

DIST_INFO ==
    <<  <<0, 1>>, <<0, 2>>, <<0, 3>>, <<0, 4>>,
        <<1, 5>>, <<1, 7>>, <<2, 9>>, <<2, 13>>, <<3, 17>>, <<3, 25>>, <<4, 33>>,
        <<4, 49>>,
        <<5, 65>>, <<5, 97>>, <<6, 129>>, <<6, 193>>, <<7, 257>>, <<7, 385>>,
        <<8, 513>>, <<8, 769>>, <<9, 1025>>, <<9, 1537>>, <<10, 2049>>,
        <<10, 3073>>,
        <<11, 4097>>, <<11, 6145>>, <<12, 8193>>, <<12, 12289>>, <<13, 16385>>,
        <<13, 24577>>  >>

\* what a block decoder returns: Result<usize>, and the reader and the
\* Writer as the call left them; decoder names the function that ran
BlockResult(r, w, bytes, err, panic, decoder) ==
    [reader |-> r, writer |-> w, bytes |-> bytes, err |-> err, panic |-> panic,
     decoder |-> decoder]

\* the arm 257..=285 of read_compressed_data, up to writer.copy_within:
\* the length, then the distance (DIST_INFO[index] aborts for index >= 30)
ReadLengthDistance(r, c, dist_tree) ==
    Bind(read_number_le(r, At(LENGTH_INFO, c - 257)[1]), LAMBDA l :
        IF l.err # ""
        THEN [reader |-> l.reader, length |-> 0, dist |-> 0, err |-> l.err,
              panic |-> ""]
        ELSE
        Bind(read_next_code(l.reader, dist_tree), LAMBDA d :
            IF d.err # ""
            THEN [reader |-> d.reader, length |-> 0, dist |-> 0, err |-> d.err,
                  panic |-> ""]
            ELSE IF d.v >= Len(DIST_INFO)
            THEN [reader |-> d.reader, length |-> 0, dist |-> 0, err |-> "",
                  panic |-> "index out of bounds"]
            ELSE
            Bind(read_number_le(d.reader, At(DIST_INFO, d.v)[1]), LAMBDA e :
                [reader |-> e.reader,
                 length |-> l.n + At(LENGTH_INFO, c - 257)[2],
                 dist |-> e.n + At(DIST_INFO, d.v)[2],
                 err |-> e.err, panic |-> ""])))

\* mutation of read_compressed_data_loop: a back-reference counts as one
\* byte, as a literal does
RECURSIVE read_compressed_data_loop_CountsOne(_, _, _, _, _)
read_compressed_data_loop_CountsOne(r, w, lit_tree, dist_tree, bytes) ==
    Bind(read_next_code(r, lit_tree), LAMBDA c :
        IF c.err # ""
        THEN BlockResult(c.reader, w, bytes, c.err, "", "")
        ELSE IF c.v <= 255
        THEN read_compressed_data_loop_CountsOne(c.reader, Writer_push(w, c.v),
                                                 lit_tree, dist_tree, bytes + 1)
        ELSE IF c.v = 256
        THEN BlockResult(c.reader, w, bytes, "", "", "")
        ELSE IF c.v > 285
        THEN BlockResult(c.reader, w, bytes, "",
                         "internal error: entered unreachable code", "")
        ELSE
        Bind(ReadLengthDistance(c.reader, c.v, dist_tree), LAMBDA ld :
            IF ld.err # "" \/ ld.panic # ""
            THEN BlockResult(ld.reader, w, bytes, ld.err, ld.panic, "")
            ELSE
            Bind(Writer_copy_within(w, ld.dist, ld.length), LAMBDA cw :
                IF cw.panic # ""
                THEN BlockResult(ld.reader, cw.self, bytes, "", cw.panic, "")
                ELSE read_compressed_data_loop_CountsOne(
                        ld.reader, cw.self, lit_tree, dist_tree, bytes + 1))))

\* loop { let c = read_next_code(reader, lit_tree)?; match c { ... } }
RECURSIVE read_compressed_data_loop(_, _, _, _, _)
read_compressed_data_loop(r, w, lit_tree, dist_tree, bytes) ==
    Bind(read_next_code(r, lit_tree), LAMBDA c :
        IF c.err # ""
        THEN BlockResult(c.reader, w, bytes, c.err, "", "")
        ELSE IF c.v <= 255
        THEN read_compressed_data_loop(c.reader, Writer_push(w, c.v), lit_tree,
                                       dist_tree, bytes + 1)
        ELSE IF c.v = 256
        THEN BlockResult(c.reader, w, bytes, "", "", "")
        ELSE IF c.v > 285
        THEN BlockResult(c.reader, w, bytes, "",
                         "internal error: entered unreachable code", "")
        ELSE
        Bind(ReadLengthDistance(c.reader, c.v, dist_tree), LAMBDA ld :
            IF ld.err # "" \/ ld.panic # ""
            THEN BlockResult(ld.reader, w, bytes, ld.err, ld.panic, "")
            ELSE
            Bind(Writer_copy_within(w, ld.dist, ld.length), LAMBDA cw :
                IF cw.panic # ""
                THEN BlockResult(ld.reader, cw.self, bytes, "", cw.panic, "")
                ELSE read_compressed_data_loop(ld.reader, cw.self, lit_tree,
                                               dist_tree, bytes + cw.n))))

read_compressed_data(r, w, lit_tree, dist_tree) ==
    read_compressed_data_loop(r, w, lit_tree, dist_tree, 0)

ALPHABET_ORDER ==
    <<16, 17, 18, 0, 8, 7, 9, 6, 10, 5, 11, 4, 12, 3, 13, 2, 14, 1, 15>>

\* read_number_le(reader, widths[1])?, read_number_le(reader, widths[2])?, ...
RECURSIVE ReadNumbers(_, _, _)
ReadNumbers(r, widths, acc) ==
    IF Len(acc) >= Len(widths)
    THEN [reader |-> r, ns |-> acc, err |-> ""]
    ELSE Bind(read_number_le(r, widths[Len(acc) + 1]), LAMBDA n :
            IF n.err # ""
            THEN [reader |-> n.reader, ns |-> acc, err |-> n.err]
            ELSE ReadNumbers(n.reader, widths, Append(acc, n.n)))

\* lengths[i] = ns[k] for the k-th i of ALPHABET_ORDER, 0 for the others
CodeLengthLengths(ns) ==
    [j \in 1..Len(ALPHABET_ORDER) |->
        IF \E k \in 1..Len(ns) : ALPHABET_ORDER[k] = j - 1
        THEN ns[CHOOSE k \in 1..Len(ns) : ALPHABET_ORDER[k] = j - 1]
        ELSE 0]

\* decompress_dynamic from code_lengths.split_at(hlit) on
DynamicData(r, w, lit, dist) ==
    Bind(build_tree(lit), LAMBDA lt :
        IF lt.err # ""
        THEN BlockResult(r, w, 0, lt.err, "", "dynamic")
        ELSE
        Bind(build_tree(dist), LAMBDA dt :
            IF dt.err # ""
            THEN BlockResult(r, w, 0, dt.err, "", "dynamic")
            ELSE [read_compressed_data(r, w, lt.tree, dt.tree)
                    EXCEPT !.decoder = "dynamic"]))

\* decompress_dynamic from Vec::with_capacity(hlit + hdist) to split_at(hlit):
\* the code lengths of the block, read with the code length tree
DynamicLengths(r, tree, hlit, hdist) ==
    Bind(read_code_lengths(r, <<>>, tree, hlit + hdist), LAMBDA rl :
        IF rl.err # "" \/ rl.panic # ""
        THEN [reader |-> rl.reader, lit |-> <<>>, dist |-> <<>>,
              err |-> rl.err, panic |-> rl.panic]
        ELSE IF hlit > Len(rl.writer)
        THEN [reader |-> rl.reader, lit |-> <<>>, dist |-> <<>>, err |-> "",
              panic |-> "mid > len"]
        ELSE [reader |-> rl.reader,
              lit |-> Slice(rl.writer, 0, hlit),
              dist |-> Slice(rl.writer, hlit, Len(rl.writer)),
              err |-> "", panic |-> ""])

\* decompress_dynamic once HLIT, HDIST and HCLEN are read
DynamicTrees(r, w, hlit, hdist, hclen) ==
    Bind(ReadNumbers(r, [k \in 1..hclen |-> 3], <<>>), LAMBDA cl :
        IF cl.err # ""
        THEN BlockResult(cl.reader, w, 0, cl.err, "", "dynamic")
        ELSE
        Bind(build_tree(CodeLengthLengths(cl.ns)), LAMBDA ct :
            IF ct.err # ""
            THEN BlockResult(cl.reader, w, 0, ct.err, "", "dynamic")
            ELSE
            Bind(DynamicLengths(cl.reader, ct.tree, hlit, hdist), LAMBDA rl :
                IF rl.err # "" \/ rl.panic # ""
                THEN BlockResult(rl.reader, w, 0, rl.err, rl.panic, "dynamic")
                ELSE DynamicData(rl.reader, w, rl.lit, rl.dist))))

decompress_dynamic(r, w) ==
    Bind(ReadNumbers(r, <<5, 5, 4>>, <<>>), LAMBDA h :
        IF h.err # ""
        THEN BlockResult(h.reader, w, 0, h.err, "", "dynamic")
        ELSE DynamicTrees(h.reader, w, h.ns[1] + 257, h.ns[2] + 1, h.ns[3] + 4))

build_lit_lengths ==
    [i \in 1..288 |->
        IF i - 1 < 144 THEN 8
        ELSE IF i - 1 < 256 THEN 9
        ELSE IF i - 1 < 280 THEN 7
        ELSE 8]

LIT_LENGTHS == build_lit_lengths

DIST_LENGTHS == [i \in 1..32 |-> 5]

LIT_TREE == build_tree(LIT_LENGTHS).tree

DIST_TREE == build_tree(DIST_LENGTHS).tree

decompress_fixed(r, w) ==
    [read_compressed_data(r, w, LIT_TREE, DIST_TREE) EXCEPT !.decoder = "fixed"]

---------------------------------------------------------------------------
(* decompress/raw.rs *)

\* u16::from_le_bytes, u32::from_le_bytes
RECURSIVE from_le_bytes(_)
from_le_bytes(bytes) ==
    IF bytes = <<>> THEN 0 ELSE Head(bytes) + 256 * from_le_bytes(Tail(bytes))

\* mutation of Not16: NLEN is compared as it is
Not16_Identity(nlen) == nlen

\* !nlen of a u16
Not16(nlen) == 65535 - nlen

raw_decompress(r, w) ==
    Bind(NextBytes(r, 4, <<>>), LAMBDA h :
        IF h.err # ""
        THEN BlockResult(h.self, w, 0, h.err, "", "raw")
        ELSE IF from_le_bytes(SubSeq(h.bytes, 1, 2))
                    # Not16(from_le_bytes(SubSeq(h.bytes, 3, 4)))
        THEN BlockResult(h.self, w, 0,
                         "inconsistency between LEN and NLEN bytes", "", "raw")
        ELSE
        Bind(Writer_copy_from(w, h.self, from_le_bytes(SubSeq(h.bytes, 1, 2))),
             LAMBDA c :
                BlockResult(c.reader, c.self,
                            IF c.err = "" /\ c.panic = ""
                            THEN from_le_bytes(SubSeq(h.bytes, 1, 2)) ELSE 0,
                            c.err, c.panic, "raw")))

---------------------------------------------------------------------------
(* decompress.rs *)

\* reader.next_bit()?, reader.next_bit()?, ...: n calls in turn
RECURSIVE NextBits(_, _, _)
NextBits(self, n, acc) ==
    IF n = 0
    THEN [self |-> self, bits |-> acc, err |-> ""]
    ELSE Bind(Reader_next_bit(self), LAMBDA b :
            IF b.err # ""
            THEN [self |-> b.self, bits |-> acc, err |-> b.err]
            ELSE NextBits(b.self, n - 1, Append(acc, b.bit)))

\* A mutant of the match below: the first bit read taken as the high bit.
BlockDecoder_HighBitFirst(t1, t2) ==
    IF ~t1 /\ ~t2 THEN "raw"
    ELSE IF ~t1 /\ t2 THEN "fixed"
    ELSE IF t1 /\ ~t2 THEN "dynamic"
    ELSE "reserved"

\* match [reader.next_bit()?, reader.next_bit()?] { ... }: the arm taken
BlockDecoder(t1, t2) ==
    IF ~t1 /\ ~t2 THEN "raw"
    ELSE IF t1 /\ ~t2 THEN "fixed"
    ELSE IF ~t1 /\ t2 THEN "dynamic"
    ELSE "reserved"

\* Result<(usize, bool)>: a BlockResult with final_block
decompress_block(r, w) ==
    Bind(NextBits(r, 3, <<>>), LAMBDA h :
        IF h.err # ""
        THEN BlockResult(h.self, w, 0, h.err, "", "") @@ [final_block |-> FALSE]
        ELSE
        Bind(BlockDecoder(h.bits[2], h.bits[3]), LAMBDA arm :
            (IF arm = "raw" THEN raw_decompress(h.self, w)
             ELSE IF arm = "fixed" THEN decompress_fixed(h.self, w)
             ELSE IF arm = "dynamic" THEN decompress_dynamic(h.self, w)
             ELSE BlockResult(h.self, w, 0, "block type 11 is reserved", "", ""))
            @@ [final_block |-> h.bits[1]]))

GzipFlags_has_crc(f) == (f \div 2) % 2 = 1

GzipFlags_has_extra(f) == (f \div 4) % 2 = 1

GzipFlags_has_name(f) == (f \div 8) % 2 = 1

GzipFlags_has_comment(f) == (f \div 16) % 2 = 1

\* the size of the window: Writer::new(writer, 32768)
WindowSize == 32768

\* The position, in bits from the start of the input, of the next bit a
\* Reader will deliver: current holds the byte before the source's offset,
\* unless nothing was read yet or the source is at its end.
BitPos(r) ==
    IF r.pos >= 8 \/ r.reader.off = 0
    THEN 8 * r.reader.off
    ELSE 8 * (r.reader.off - 1) + r.pos

\* what the history variable op holds under Spec: the step taken (name),
\* where its input began (at), how it ended, and what a block returned
Step(name, at) ==
    [name |-> name, at |-> at, err |-> "", panic |-> "", decoder |-> "",
     final_block |-> FALSE, n |-> 0]

\* The state of a run of decompress(): its locals and where it stands.
Started(src) ==
    [writer |-> Writer_new(<<>>, WindowSize),
     reader |-> Reader_new(src),
     pc |-> "magic", outcome |-> "running", total |-> 0, flags |-> 0,
     op |-> Step("", 0), pre |-> Writer_new(<<>>, WindowSize), log |-> <<>>]

\* bail!(...) or a `?` that returned: decompress returns Err
Bail(st, r, name, at, err) ==
    [st EXCEPT !.reader = r, !.pc = "done", !.outcome = "err",
               !.op = [Step(name, at) EXCEPT !.err = err], !.pre = st.writer]

\* the step is done, decompress goes on at next
Go(st, r, name, at, next) ==
    [st EXCEPT !.reader = r, !.pc = next, !.op = Step(name, at),
               !.pre = st.writer]

\* ids after copy_to(&mut &mut ids[..], 2): [0; 2] with the bytes written
Ids(written) == Overlay(Zeros(2), written)

\* mutation of WrongMagic: ID2 is not looked at
WrongMagic_FirstOnly(ids) == ids[1] # 31

\* ids[0] != 0x1f || ids[1] != 0x8b
WrongMagic(ids) == ids[1] # 31 \/ ids[2] # 139

decompress_magic(st) ==
    Bind(Reader_copy_to(st.reader, SliceWriter(2), 2), LAMBDA c :
        IF c.err # ""
        THEN Bail(st, c.self, "magic", 0, "failed to read magic numbers")
        ELSE IF WrongMagic(Ids(c.writer.data))
        THEN Bail(st, c.self, "magic", 0, "wrong magic number")
        ELSE Go(st, c.self, "magic", 0, "method"))

decompress_method(st) ==
    Bind(Reader_next_byte(st.reader), LAMBDA cm :
        IF cm.err # ""
        THEN Bail(st, cm.self, "method", BitPos(st.reader), cm.err)
        ELSE IF cm.byte # 8
        THEN Bail(st, cm.self, "method", BitPos(st.reader),
                  "wrong compression method detected")
        ELSE Go(st, cm.self, "method", BitPos(st.reader), "fields"))

\* flags, mtime (4 bytes), extra_flag, os
decompress_fields(st) ==
    Bind(NextBytes(st.reader, 7, <<>>), LAMBDA f :
        IF f.err # ""
        THEN Bail(st, f.self, "fields", BitPos(st.reader), f.err)
        ELSE [Go(st, f.self, "fields", BitPos(st.reader), "extra")
                EXCEPT !.flags = f.bytes[1]])

\* consumed = reader.skip(length)? and the check of it
SkipExtra(st, r, length) ==
    Bind(Reader_skip(r, length), LAMBDA s :
        IF s.err # ""
        THEN Bail(st, s.self, "extra", BitPos(st.reader), s.err)
        ELSE IF length # s.n
        THEN Bail(st, s.self, "extra", BitPos(st.reader),
                  "extra field: failed to read")
        ELSE [Go(st, s.self, "extra", BitPos(st.reader), "name")
                EXCEPT !.op.n = length])

decompress_extra(st) ==
    IF ~GzipFlags_has_extra(st.flags)
    THEN Go(st, st.reader, "extra", BitPos(st.reader), "name")
    ELSE Bind(NextBytes(st.reader, 2, <<>>), LAMBDA l :
            IF l.err # ""
            THEN Bail(st, l.self, "extra", BitPos(st.reader), l.err)
            ELSE SkipExtra(st, l.self, from_le_bytes(l.bytes)))

\* loop { let byte = reader.next_byte()?; if byte == 0 { break } ... }
RECURSIVE ReadToZero(_, _)
ReadToZero(self, buf) ==
    Bind(Reader_next_byte(self), LAMBDA b :
        IF b.err # ""
        THEN [self |-> b.self, buf |-> buf, err |-> b.err]
        ELSE IF b.byte = 0
        THEN [self |-> b.self, buf |-> buf, err |-> ""]
        ELSE ReadToZero(b.self, Append(buf, b.byte)))

\* original_name and comment: the same loop, under has_name or has_comment
ZeroTerminated(st, has, name, next) ==
    IF ~has
    THEN Go(st, st.reader, name, BitPos(st.reader), next)
    ELSE Bind(ReadToZero(st.reader, <<>>), LAMBDA z :
            IF z.err # ""
            THEN Bail(st, z.self, name, BitPos(st.reader), z.err)
            ELSE Go(st, z.self, name, BitPos(st.reader), next))

decompress_name(st) ==
    ZeroTerminated(st, GzipFlags_has_name(st.flags), "name", "comment")

decompress_comment(st) ==
    ZeroTerminated(st, GzipFlags_has_comment(st.flags), "comment", "crc16")

decompress_crc16(st) ==
    IF ~GzipFlags_has_crc(st.flags)
    THEN Go(st, st.reader, "crc16", BitPos(st.reader), "block")
    ELSE Bind(NextBytes(st.reader, 2, <<>>), LAMBDA c :
            IF c.err # ""
            THEN Bail(st, c.self, "crc16", BitPos(st.reader), c.err)
            ELSE Go(st, c.self, "crc16", BitPos(st.reader), "block"))

\* A mutant of the test below: the loop never ends.
BlockLoopNext_Never(final_block) == "block"

\* if final_block { break; }: where decompress goes after a block
BlockLoopNext(final_block) == IF final_block THEN "trailer" ELSE "block"

\* one turn of the loop of decompress: a block, and total_bytes += bytes
decompress_loop(st) ==
    Bind(decompress_block(st.reader, st.writer), LAMBDA b :
        [st EXCEPT
            !.reader = b.reader,
            !.writer = b.writer,
            !.pre = st.writer,
            !.op = [Step("block", BitPos(st.reader)) EXCEPT
                        !.err = b.err, !.panic = b.panic, !.decoder = b.decoder,
                        !.final_block = b.final_block, !.n = b.bytes],
            !.log = Append(st.log,
                           [at |-> BitPos(st.reader), end |-> BitPos(b.reader),
                            final_block |-> b.final_block,
                            decoder |-> b.decoder,
                            ok |-> b.err = "" /\ b.panic = ""]),
            !.outcome = IF b.panic # "" THEN "panic"
                        ELSE IF b.err # "" THEN "err" ELSE "running",
            !.pc = IF b.panic # "" \/ b.err # "" THEN "done"
                   ELSE BlockLoopNext(b.final_block),
            !.total = IF b.panic # "" \/ b.err # "" THEN st.total
                      ELSE st.total + b.bytes])

\* The four bytes of n & 0xffffffff, the low byte first (2^32 itself is
\* beyond the integers of the model checker, 256^3 is not).
LE32(n) ==
    <<n % 256, (n \div 256) % 256, (n \div 65536) % 256, (n \div 16777216) % 256>>

\* A mutant of the test below: ISIZE is not looked at.
IsizeDiffers_Never(total_bytes, data_length_bytes) == FALSE

\* total_bytes & 0xffffffff != data_length, with data_length =
\* u32::from_le_bytes(data_length_bytes): two u32 differ iff their bytes do
IsizeDiffers(total_bytes, data_length_bytes) ==
    LE32(total_bytes) # data_length_bytes

\* the eight bytes of the trailer and the check of ISIZE; r is the reader
\* after ensure_byte_boundary
ReadTrailer(st, r) ==
    Bind(NextBytes(r, 8, <<>>), LAMBDA t :
        IF t.err # ""
        THEN Bail(st, t.self, "trailer", BitPos(r), t.err)
        ELSE IF IsizeDiffers(st.total, SubSeq(t.bytes, 5, 8))
        THEN Bail(st, t.self, "trailer", BitPos(r),
                  "input size differs from actual size")
        ELSE [Go(st, t.self, "trailer", BitPos(r), "done")
                EXCEPT !.outcome = "ok"])

decompress_trailer(st) ==
    Bind(Reader_ensure_byte_boundary(st.reader), LAMBDA a :
        IF a.err # ""
        THEN Bail(st, a.self, "trailer", BitPos(st.reader), a.err)
        ELSE ReadTrailer(st, a.self))

\* decompress, a step at a time
decompress_step(st) ==
    CASE st.pc = "magic" -> decompress_magic(st)
      [] st.pc = "method" -> decompress_method(st)
      [] st.pc = "fields" -> decompress_fields(st)
      [] st.pc = "extra" -> decompress_extra(st)
      [] st.pc = "name" -> decompress_name(st)
      [] st.pc = "comment" -> decompress_comment(st)
      [] st.pc = "crc16" -> decompress_crc16(st)
      [] st.pc = "block" -> decompress_loop(st)
      [] st.pc = "trailer" -> decompress_trailer(st)

\* decompress from st to its end
RECURSIVE decompress(_)
decompress(st) == IF st.pc = "done" THEN st ELSE decompress(decompress_step(st))

---------------------------------------------------------------------------
(* SpecRB: a Writer over a ring buffer of capacity Cap, driven by any      *)
(* sequence of push, copy_within and copy_from calls.  A failed assert!    *)
(* aborts (outcome "panic", nothing follows); after a copy_from that       *)
(* returned Err the caller may go on (outcome is "err" from then on).      *)

NoOp == [name |-> "", a |-> 0, length |-> 0, data |-> <<>>,
         first |-> <<>>, second |-> <<>>, err |-> "", panic |-> ""]

NoReader == Reader_new(Source(<<>>, 0))

NoGz == [data |-> <<>>]

InitRB ==
    /\ gz = NoGz
    /\ writer = Writer_new(<<>>, Cap)
    /\ reader = NoReader
    /\ pc = "rb"
    /\ outcome = "running"
    /\ total = 0
    /\ flags = 0
    /\ op = NoOp
    /\ pre = Writer_new(<<>>, Cap)
    /\ admitted = 0
    /\ log = <<>>
    /\ trie = BinaryTrie_new
    /\ cur = BinaryTrie_cursor(BinaryTrie_new)

RBCanRun == pc = "rb" /\ outcome # "panic" /\ Len(writer.writer) < MaxSink

RBPush ==
    \E v \in {admitted % 256} :
        /\ RBCanRun
        /\ writer' = Writer_push(writer, v)
        /\ op' = [NoOp EXCEPT !.name = "push", !.a = v, !.length = 1]
        /\ pre' = writer
        /\ admitted' = admitted + 1
        /\ total' = IF total >= 0 THEN total + 1 ELSE total
        /\ UNCHANGED <<trie, cur, gz, reader, pc, outcome, flags, log>>

RBCopyWithin ==
    \E distance \in 0..Cap, length \in 0..(Cap + 1) :
      \E c \in {RingBuffer_copy_within(writer.ringbuf, distance, length)},
         w \in {Writer_copy_within(writer, distance, length)} :
        /\ RBCanRun
        /\ writer' = w.self
        /\ op' = [NoOp EXCEPT !.name = "copy_within", !.a = distance,
                              !.length = length, !.first = c.first,
                              !.second = c.second, !.panic = c.panic]
        /\ pre' = writer
        /\ outcome' = IF w.panic # "" THEN "panic" ELSE outcome
        /\ admitted' = IF w.panic # "" THEN admitted ELSE admitted + length
        /\ total' = -1
        /\ UNCHANGED <<trie, cur, gz, reader, pc, flags, log>>

\* the source holds length bytes, one byte more, or one byte less (and the
\* call fails: the bytes it has appended to the storage by then count as
\* admitted)
RBCopyFrom ==
    \E length \in 0..(Cap + 1), short \in -1..1 :
      \E data \in {Ramp(admitted, IF length >= short THEN length - short ELSE 0)} :
      \E c \in {RingBuffer_copy_from(writer.ringbuf, Source(data, 0), length)},
         w \in {Writer_copy_from(writer, Source(data, 0), length)} :
        /\ RBCanRun
        /\ writer' = w.self
        /\ op' = [NoOp EXCEPT !.name = "copy_from", !.length = length,
                              !.data = data, !.first = c.first,
                              !.second = c.second, !.err = c.err,
                              !.panic = c.panic]
        /\ pre' = writer
        /\ outcome' = IF w.panic # "" THEN "panic"
                      ELSE IF w.err # "" THEN "err" ELSE outcome
        /\ admitted' = IF w.panic # "" THEN admitted
                       ELSE IF w.err # ""
                       THEN admitted + Len(w.self.ringbuf.buf)
                                     - Len(writer.ringbuf.buf)
                       ELSE admitted + length
        /\ total' = -1
        /\ UNCHANGED <<trie, cur, gz, reader, pc, flags, log>>

NextRB == RBPush \/ RBCopyWithin \/ RBCopyFrom

SpecRB == InitRB /\ [][NextRB]_vars

---------------------------------------------------------------------------
(* Claims about the ring buffer and the Writer, under SpecRB *)

\* the window's logical content: as_slices' first ++ second
Window(rb) == RingBuffer_as_slices(rb).first \o RingBuffer_as_slices(rb).second

\* the last n elements of s (all of s when it is shorter)
LastN(s, n) == SubSeq(s, Len(s) - Min(n, Len(s)) + 1, Len(s))

\* n push operations, each of the byte distance positions before the cursor
RECURSIVE PushFromBack(_, _, _)
PushFromBack(rb, distance, n) ==
    IF n = 0 THEN rb
    ELSE PushFromBack(
            RingBuffer_push(rb, At(rb.buf, (rb.next + rb.cap - distance) % rb.cap)),
            distance, n - 1)

\* the last operation was copy_within(d, L) with the preconditions of C7 and C8
ValidCopyWithin ==
    /\ op.name = "copy_within"
    /\ op.a >= 1
    /\ op.a <= RingBuffer_len(pre.ringbuf)
    /\ op.length <= RingBuffer_capacity(pre.ringbuf)

\* C6 (as claimed): as long as every operation succeeded, the sink holds
\* exactly the bytes admitted to the window, in order, and the window is the
\* last min(capacity, total) bytes of the sink.
C6_SinkIsAdmittedBytes ==
    outcome = "running" =>
        /\ Len(writer.writer) = admitted
        /\ Window(writer.ringbuf)
            = LastN(writer.writer, Min(RingBuffer_capacity(writer.ringbuf), admitted))

\* C7: copy_within(d, L) with 1 <= d <= len() and L <= capacity leaves the
\* buffer (storage, next, and so len) as L pushes do, each of the byte d
\* positions before the write cursor at that moment.
C7_CopyWithinIsRepeatedPush ==
    ValidCopyWithin =>
        /\ op.panic = ""
        /\ writer.ringbuf = PushFromBack(pre.ringbuf, op.a, op.length)

\* C7's case: a wrapped buffer whose cursor is inside the storage, and more
\* bytes copied than the distance (the source overlaps the destination)
C7_Witness ==
    /\ ValidCopyWithin
    /\ RingBuffer_is_wrapped(pre.ringbuf)
    /\ pre.ringbuf.next > 0
    /\ op.length > op.a
    /\ writer.ringbuf # pre.ringbuf

\* C8 (as claimed): copy_within(d, 0) changes nothing and returns two empty
\* slices.
C8_ZeroLengthIsNoOp ==
    (ValidCopyWithin /\ op.length = 0) =>
        /\ writer.ringbuf = pre.ringbuf
        /\ op.first = <<>>
        /\ op.second = <<>>

---------------------------------------------------------------------------
(* The inputs of Spec: gzip streams put together from a description (the   *)
(* header's flags and extra field, the blocks, the trailer), by the rules  *)
(* of RFC 1952 and RFC 1951 and not by the program's code, so that where   *)
(* each part of a stream lies is known beside the bytes.                   *)

\* the k low bits of n, lowest first / highest first
LSB(n, k) == [i \in 1..k |-> (n \div (2 ^ (i - 1))) % 2]

MSB(n, k) == [i \in 1..k |-> (n \div (2 ^ (k - i))) % 2]

\* a 16-bit number as two bytes, the low byte first
LE16(n) == <<n % 256, (n \div 256) % 256>>

\* bits filled up with 0s to the next byte boundary
Pad(bits) == bits \o Zeros((8 - (Len(bits) % 8)) % 8)

\* bytes as bits, the lowest bit of a byte first, and back
Unpack(bytes) ==
    [i \in 1..(8 * Len(bytes)) |->
        (bytes[((i - 1) \div 8) + 1] \div (2 ^ ((i - 1) % 8))) % 2]

Pack(bits) ==
    [j \in 1..(Len(bits) \div 8) |->
        bits[8 * j - 7] + 2 * bits[8 * j - 6] + 4 * bits[8 * j - 5]
        + 8 * bits[8 * j - 4] + 16 * bits[8 * j - 3] + 32 * bits[8 * j - 2]
        + 64 * bits[8 * j - 1] + 128 * bits[8 * j]]

\* RFC 1951, 3.2.6: the fixed Huffman code of a literal/length symbol
FixedCode(s) ==
    IF s < 144 THEN MSB(48 + s, 8)
    ELSE IF s < 256 THEN MSB(400 + (s - 144), 9)
    ELSE IF s < 280 THEN MSB(s - 256, 7)
    ELSE MSB(192 + (s - 280), 8)

\* A dynamic Huffman block (after its 3 header bits) that decodes to
\* "a" and a copy of length 3 from distance 1.  Literal/length code:
\* 'a' = 0, 256 = 10, 257 = 11; distance code: 0 = 0; code length code:
\* 18 = 0, 1 = 10, 2 = 11.
DynamicBody ==
    LSB(1, 5) \o LSB(0, 5) \o LSB(14, 4)
    \* the lengths of 16, 17, 18, 0, 8, 7, 9, 6, 10, 5, 11, 4, 12, 3, 13, 2, 14, 1
    \o LSB(0, 3) \o LSB(0, 3) \o LSB(1, 3) \o Zeros(3 * 12) \o LSB(2, 3)
    \o LSB(0, 3) \o LSB(2, 3)
    \* 97 zeros, 1 ('a'), 138 + 20 zeros, 2 (256), 2 (257), 1 (distance 0)
    \o <<0>> \o LSB(97 - 11, 7) \o <<1, 0>>
    \o <<0>> \o LSB(138 - 11, 7) \o <<0>> \o LSB(20 - 11, 7)
    \o <<1, 1>> \o <<1, 1>> \o <<1, 0>>
    \* 'a', length 3 (257), distance 1 (0), end of block (256)
    \o <<0>> \o <<1, 1>> \o <<0>> \o <<1, 0>>

\* the payload of a stored block of n bytes
Payload(n) == Ramp(66, n)

\* BTYPE of a kind of block
BType(kind) ==
    CASE kind \in {"stored", "stored_nlen"} -> 0
      [] kind \in {"fixed_lit", "fixed_ref", "fixed_sym", "fixed_dist"} -> 1
      [] kind = "dynamic" -> 2
      [] kind = "reserved" -> 3

\* A block b is [kind, n, final]: "stored" with n bytes of payload;
\* "stored_nlen", the same with NLEN = -LEN, which is not !LEN;
\* "fixed_sym", the literal/length symbol n alone; "fixed_dist", a copy of
\* length 3 whose distance symbol is n;
\* "fixed_lit", the literal 'a'; "fixed_ref", a copy of length 3 from
\* distance n; "dynamic", DynamicBody; "reserved", only a header of type 11.
\* The bits of the stream so far, with block b after them:
WithBlock(bits, b) ==
    Bind(bits \o <<IF b.final THEN 1 ELSE 0>> \o LSB(BType(b.kind), 2), LAMBDA h :
        CASE b.kind = "stored" ->
                Pad(h) \o Unpack(LE16(b.n) \o LE16(65535 - b.n) \o Payload(b.n))
          [] b.kind = "stored_nlen" ->
                Pad(h) \o Unpack(LE16(b.n) \o LE16((65536 - b.n) % 65536)
                                  \o Payload(b.n))
          [] b.kind = "fixed_lit" -> h \o FixedCode(97) \o FixedCode(256)
          [] b.kind = "fixed_ref" ->
                h \o FixedCode(257) \o MSB(b.n - 1, 5) \o FixedCode(256)
          [] b.kind = "fixed_sym" -> h \o FixedCode(b.n) \o FixedCode(256)
          [] b.kind = "fixed_dist" ->
                h \o FixedCode(257) \o MSB(b.n, 5) \o FixedCode(256)
          [] b.kind = "dynamic" -> h \o DynamicBody
          [] b.kind = "reserved" -> h)

\* the number of bytes block b decodes to, when it can be decoded
Produces(b) ==
    CASE b.kind = "stored" -> b.n
      [] b.kind \in {"stored_nlen", "fixed_sym", "fixed_dist"} -> 0
      [] b.kind = "fixed_lit" -> 1
      [] b.kind = "fixed_ref" -> 3
      [] b.kind = "dynamic" -> 4
      [] b.kind = "reserved" -> 0

\* blocks from the i-th on, after the bits of acc; each block is noted with
\* the positions of its first bit (at) and of the bit after its last (end)
RECURSIVE WithBlocks(_, _, _)
WithBlocks(acc, blocks, i) ==
    IF i > Len(blocks)
    THEN acc
    ELSE Bind(WithBlock(acc.bits, blocks[i]), LAMBDA bits :
            WithBlocks([bits |-> bits,
                        blocks |-> Append(acc.blocks,
                                          blocks[i] @@ [at |-> Len(acc.bits),
                                                        end |-> Len(bits)])],
                       blocks, i + 1))

\* the index of the first final block, Len(blocks) + 1 if there is none
FirstFinal(blocks) ==
    IF \E i \in 1..Len(blocks) : blocks[i].final
    THEN CHOOSE i \in 1..Len(blocks) :
            blocks[i].final /\ \A j \in 1..(i - 1) : ~blocks[j].final
    ELSE Len(blocks) + 1

\* the size of the data up to the first final block
RECURSIVE DataSize(_, _)
DataSize(blocks, n) ==
    IF n = 0 THEN 0 ELSE DataSize(blocks, n - 1) + Produces(blocks[n])

\* RFC 1952, 2.3: ID1 ID2 CM FLG MTIME(4) XFL OS, then the optional fields
Header(flg, xlen) ==
    <<31, 139, 8, flg, 0, 0, 0, 0, 0, 3>>
    \o (IF (flg \div 4) % 2 = 1 THEN LE16(xlen) \o Ramp(161, xlen) ELSE <<>>)
    \o (IF (flg \div 8) % 2 = 1 THEN <<110, 0>> ELSE <<>>)
    \o (IF (flg \div 16) % 2 = 1 THEN <<99, 0>> ELSE <<>>)
    \o (IF (flg \div 2) % 2 = 1 THEN <<17, 34>> ELSE <<>>)

\* The stream: its bytes (data, zeros and tail as of a source), where the header ends (deflate, in bytes), the
\* blocks, where the trailer of the first final block begins (trailer, in
\* bytes), and ISIZE, which is off the size of the data by isize_off.
Stream(flg, xlen, blocks, isize_off) ==
    Bind(WithBlocks([bits |-> Unpack(Header(flg, xlen)), blocks |-> <<>>],
                    blocks, 1),
         LAMBDA d :
            [data |-> Pack(Pad(d.bits))
                        \o <<222, 173, 190, 239>>
                        \o LE16(DataSize(blocks, Min(FirstFinal(blocks),
                                                       Len(blocks)))
                                  + isize_off)
                        \o <<0, 0>>,
             zeros |-> 0,
             tail |-> <<>>,
             flg |-> flg,
             xlen |-> xlen,
             deflate |-> Len(Header(flg, xlen)),
             blocks |-> d.blocks,
             isize_off |-> isize_off])

---------------------------------------------------------------------------
(* Spec: one run of decompress() over a stream, a step of it per action.   *)

\* stored blocks carry 0..MaxStored bytes
MaxStored == 2
\* a stream has 1..MaxBlocks blocks
MaxBlocks == 2
\* the extra field of a header carries 0..MaxXLen bytes
MaxXLen == 1
\* the source delivers at most 1..MaxChunk bytes per read, or all (0)
MaxChunk == 2

Blocks ==
    {[kind |-> k, n |-> n, final |-> f] :
        k \in {"stored", "stored_nlen"}, n \in 0..MaxStored, f \in BOOLEAN}
    \cup {[kind |-> k, n |-> 0, final |-> f] :
            k \in {"fixed_lit", "dynamic", "reserved"}, f \in BOOLEAN}
    \cup {[kind |-> "fixed_ref", n |-> d, final |-> f] : d \in 1..2, f \in BOOLEAN}

\* A stream of one stored block of one byte more than the window holds,
\* all 0: the header and 01 (final, stored) LEN NLEN, the payload, the trailer
BigStream ==
    [data |-> Header(0, 0) \o <<1>> \o LE16(WindowSize + 1)
                \o LE16(65535 - (WindowSize + 1)),
     zeros |-> WindowSize + 1,
     tail |-> <<222, 173, 190, 239>> \o LE16(WindowSize + 1) \o <<0, 0>>,
     flg |-> 0,
     xlen |-> 0,
     deflate |-> 10,
     blocks |-> <<[kind |-> "stored", n |-> WindowSize + 1, final |-> TRUE,
                   at |-> 80, end |-> 8 * (15 + WindowSize + 1)]>>,
     isize_off |-> 0]

\* The plain stream of one stored byte with one of its first three bytes
\* (ID1, ID2, CM) replaced, or cut after less than two bytes
BadStarts ==
    LET plain == Stream(0, 0, <<[kind |-> "stored", n |-> 1, final |-> TRUE]>>, 0)
    IN  {[plain EXCEPT !.data = SetAt(plain.data, k, v)] :
            k \in 0..2, v \in {0, 8, 31, 139}}
        \cup {[plain EXCEPT !.data = Slice(plain.data, 0, n)] : n \in 0..1}

\* One block with a literal/length symbol 286 or 287, or with a distance
\* symbol 30 or 31, which the fixed codes have and DEFLATE does not use,
\* alone or after a block that gives output
BadCodes ==
    {Stream(0, 0, lead \o <<[kind |-> k[1], n |-> k[2], final |-> TRUE]>>, 0) :
        lead \in {<<>>, <<[kind |-> "fixed_lit", n |-> 0, final |-> FALSE]>>},
        k \in {<<"fixed_sym", 286>>, <<"fixed_sym", 287>>,
               <<"fixed_dist", 30>>, <<"fixed_dist", 31>>}}

\* The streams that are cut: every header before one stored block, and
\* every final block after the plain header
WholeStreams ==
    {Stream(flg, xlen, <<[kind |-> "stored", n |-> 1, final |-> TRUE]>>, 0) :
        flg \in 0..31, xlen \in 0..MaxXLen}
    \cup {Stream(0, 0, <<b>>, 0) : b \in {c \in Blocks : c.final}}

\* The first n bytes of a stream, for every n less than its length; whole
\* is the stream, and the blocks are not described
Cuts ==
    UNION {{[data |-> Slice(g.data, 0, n), zeros |-> 0, tail |-> <<>>,
             flg |-> g.flg, xlen |-> g.xlen, deflate |-> g.deflate,
             blocks |-> <<>>, isize_off |-> 0, whole |-> g.data] :
                n \in 0..(Len(g.data) - 1)} : g \in WholeStreams}

\* every header before one stored block; every sequence of blocks, with a
\* right and with a wrong ISIZE, after the plain header; BigStream; and the
\* streams that do not begin as a gzip stream does
Streams ==
    {Stream(flg, xlen, <<[kind |-> "stored", n |-> 1, final |-> TRUE]>>, 0) :
        flg \in 0..31, xlen \in 0..MaxXLen}
    \cup {Stream(0, 0, bs, d) :
            bs \in UNION {[1..k -> Blocks] : k \in 1..MaxBlocks}, d \in 0..1}
    \cup {BigStream}
    \cup BadStarts
    \cup BadCodes
    \cup Cuts

\* the run as one record, and back
St ==
    [writer |-> writer, reader |-> reader, pc |-> pc, outcome |-> outcome,
     total |-> total, flags |-> flags, op |-> op, pre |-> pre, log |-> log]

Becomes(s) ==
    /\ writer' = s.writer
    /\ reader' = s.reader
    /\ pc' = s.pc
    /\ outcome' = s.outcome
    /\ total' = s.total
    /\ flags' = s.flags
    /\ op' = s.op
    /\ pre' = s.pre
    /\ log' = s.log
    /\ UNCHANGED <<trie, cur, gz, admitted>>

\* A source that delivers less than it is asked for is tried on the
\* streams of one block.
Init ==
    \E g \in Streams, chunk \in 0..MaxChunk :
      \E s \in {Started(LongSource(g.data, g.zeros, g.tail, chunk))} :
        /\ chunk > 0 => Len(g.blocks) = 1
        /\ gz = g
        /\ writer = s.writer
        /\ reader = s.reader
        /\ pc = s.pc
        /\ outcome = s.outcome
        /\ total = s.total
        /\ flags = s.flags
        /\ op = s.op
        /\ pre = s.pre
        /\ log = s.log
        /\ trie = BinaryTrie_new
        /\ cur = BinaryTrie_cursor(BinaryTrie_new)
        /\ admitted = 0

Magic == pc = "magic" /\ \E s \in {decompress_magic(St)} : Becomes(s)

Method == pc = "method" /\ \E s \in {decompress_method(St)} : Becomes(s)

Fields == pc = "fields" /\ \E s \in {decompress_fields(St)} : Becomes(s)

Extra == pc = "extra" /\ \E s \in {decompress_extra(St)} : Becomes(s)

Name == pc = "name" /\ \E s \in {decompress_name(St)} : Becomes(s)

Comment == pc = "comment" /\ \E s \in {decompress_comment(St)} : Becomes(s)

Crc16 == pc = "crc16" /\ \E s \in {decompress_crc16(St)} : Becomes(s)

Block == pc = "block" /\ \E s \in {decompress_loop(St)} : Becomes(s)

Trailer == pc = "trailer" /\ \E s \in {decompress_trailer(St)} : Becomes(s)

Next ==
    \/ Magic
    \/ Method
    \/ Fields
    \/ Extra
    \/ Name
    \/ Comment
    \/ Crc16
    \/ Block
    \/ Trailer

Spec == Init /\ [][Next]_vars

---------------------------------------------------------------------------
(* Claims checked under Spec.  What the input holds is read off gz, the    *)
(* bytes and the description they were built from, not off the Reader.     *)

\* bit k of the input, counted from 0 in the order the format defines
InputBit(k) == (InputAt(gz, k \div 8) \div (2 ^ (k % 8))) % 2

\* bytes a..b-1 of the input, counted from 0
InputBytes(a, b) == InputSlice(gz, a, b)

\* the last step was a block whose three header bits the input holds
BlockRead == op.name = "block" /\ op.at + 3 <= 8 * InputLen(gz)

\* BTYPE of the block the last step read
InputBType == InputBit(op.at + 1) + 2 * InputBit(op.at + 2)

\* where LEN of a stored block read by the last step lies, in bytes
LenAt == (op.at + 3 + 7) \div 8

\* the last step read a stored block that the input holds in full, with
\* NLEN the complement of LEN
WholeStoredBlock ==
    /\ BlockRead
    /\ InputBType = 0
    /\ LenAt + 4 <= InputLen(gz)
    /\ from_le_bytes(InputBytes(LenAt, LenAt + 2))
        + from_le_bytes(InputBytes(LenAt + 2, LenAt + 4)) = 65535
    /\ LenAt + 4 + from_le_bytes(InputBytes(LenAt, LenAt + 2)) <= InputLen(gz)

\* C1: a stored block with any LEN in 0..65535 and NLEN = ~LEN is decoded
\* without failure: the LEN bytes after NLEN are appended to the sink, in
\* order, and the block reports LEN bytes.
C1_StoredBlockCopiesLenBytes ==
    WholeStoredBlock =>
        /\ op.err = "" /\ op.panic = ""
        /\ op.n = from_le_bytes(InputBytes(LenAt, LenAt + 2))
        /\ writer.writer
            = pre.writer
              \o InputBytes(LenAt + 4,
                            LenAt + 4 + from_le_bytes(InputBytes(LenAt, LenAt + 2)))

\* the block of the description that the last step read, if it began where
\* that block begins
ReadsDescribedBlock ==
    /\ op.name = "block"
    /\ Len(log) <= Len(gz.blocks)
    /\ op.at = gz.blocks[Len(log)].at

\* C2: a back-reference of a Huffman block whose distance is greater than
\* the number of bytes in the window ends decompress with an error: the
\* program does not abort, and the sink gets no byte.
C2_FarBackReferenceIsAnError ==
    (/\ ReadsDescribedBlock
     /\ gz.blocks[Len(log)].kind = "fixed_ref"
     /\ gz.blocks[Len(log)].n > RingBuffer_len(pre.ringbuf))
        => /\ outcome = "err"
           /\ op.panic = ""
           /\ writer.writer = pre.writer

\* C3: with FEXTRA set the header parser consumes XLEN (2 bytes) and XLEN
\* bytes of payload, for every XLEN: the next byte it reads is the one after
\* the payload, byte 12 + XLEN of the input.
C3_ExtraFieldConsumesXlenBytes ==
    (op.name = "extra" /\ (gz.flg \div 4) % 2 = 1 /\ op.err = "")
        => BitPos(reader) = 8 * (12 + gz.xlen)

\* C4: the sink and the outcome of a run depend on the bytes of the input
\* alone: a run over a source that delivers them in other chunks (one byte
\* per read, ..., all at once) ends with the same sink and the same outcome.
C4_ChunksDoNotMatter ==
    pc = "done" =>
        \A chunk \in 0..MaxChunk :
            \E other \in {decompress(Started(LongSource(gz.data, gz.zeros, gz.tail, chunk)))} :
                /\ other.outcome = outcome
                /\ other.writer.writer = writer.writer

\* the input holds the eight bytes of the trailer the last step read
TrailerRead == op.name = "trailer" /\ (op.at \div 8) + 8 <= InputLen(gz)

\* the four bytes of ISIZE are those of n modulo 2^32
IsizeIs(n) ==
    \A i \in 0..3 :
        InputAt(gz, (op.at \div 8) + 4 + i) = (n \div (256 ^ i)) % 256

\* C5: decompress succeeds only if the number of bytes output, modulo 2^32,
\* is ISIZE, the last four bytes of the trailer (little-endian); if they
\* differ it returns an error.
C5_SuccessOnlyIfIsizeMatches ==
    /\ outcome = "ok" => TrailerRead /\ IsizeIs(Len(writer.writer))
    /\ (TrailerRead /\ ~IsizeIs(Len(writer.writer))) => outcome = "err"
    /\ (TrailerRead /\ IsizeIs(Len(writer.writer))) => outcome = "ok"

C5_Witness ==
    /\ outcome = "ok"
    /\ Len(log) = 2
    /\ Len(writer.writer) > 0

\* C9: the dispatcher reads the final flag, then the type, low bit first:
\* 00 is decoded by the stored decoder, 01 by the fixed Huffman decoder, 10
\* by the dynamic Huffman decoder, 11 is an error and no byte of the block
\* is output.  The blocks of the description decode to what they hold.
C9_DispatchByType ==
    /\ BlockRead =>
        /\ op.final_block = (InputBit(op.at) = 1)
        /\ InputBType = 0 => op.decoder = "raw"
        /\ InputBType = 1 => op.decoder = "fixed"
        /\ InputBType = 2 => op.decoder = "dynamic"
        /\ InputBType = 3 =>
            /\ outcome = "err" /\ op.err = "block type 11 is reserved"
            /\ op.decoder = "" /\ writer.writer = pre.writer
    /\ (ReadsDescribedBlock /\ gz.blocks[Len(log)].kind = "dynamic") =>
            /\ op.decoder = "dynamic" /\ op.err = "" /\ op.panic = ""
            /\ writer.writer = pre.writer \o <<97, 97, 97, 97>>
    /\ (ReadsDescribedBlock /\ gz.blocks[Len(log)].kind = "fixed_lit") =>
            /\ op.decoder = "fixed" /\ op.err = "" /\ op.panic = ""
            /\ writer.writer = pre.writer \o <<97>>

C9_Witness ==
    /\ ReadsDescribedBlock
    /\ gz.blocks[Len(log)].kind = "dynamic"
    /\ Len(log) = 2
    /\ log[1].decoder = "fixed"
    /\ writer.writer = <<97, 97, 97, 97, 97>>

\* the byte boundary at or after bit position p, in bits
Boundary(p) == 8 * ((p + 7) \div 8)

\* C10: blocks are decoded in stream order, each where the one before it
\* ended; the loop ends with the first block whose final flag is set: no
\* block is read after it, and the trailer is read from the next byte
\* boundary on.  Where the loop began at the first DEFLATE byte of the
\* stream, the blocks read are the blocks of the stream up to the first
\* final one.
C10_LoopStopsAtFirstFinalBlock ==
    /\ \A i \in 1..(Len(log) - 1) :
        /\ ~log[i].final_block
        /\ log[i].ok
        /\ log[i + 1].at = log[i].end
    /\ pc = "block" => (log = <<>> \/ ~log[Len(log)].final_block)
    /\ (pc = "trailer" \/ op.name = "trailer") =>
        /\ log # <<>>
        /\ log[Len(log)].final_block
        /\ log[Len(log)].ok
    /\ op.name = "trailer" =>
        \/ op.at = Boundary(log[Len(log)].end)
        \/ op.err # "" /\ Boundary(log[Len(log)].end) >= 8 * InputLen(gz)
    /\ (log # <<>> /\ log[1].at = 8 * gz.deflate) =>
        \A i \in 1..Min(Len(log), Len(gz.blocks)) :
            /\ i <= FirstFinal(gz.blocks)
            /\ log[i].at = gz.blocks[i].at
            /\ log[i].final_block = gz.blocks[i].final
            /\ log[i].ok => log[i].end = gz.blocks[i].end
    /\ (log # <<>> /\ log[1].at = 8 * gz.deflate /\ op.name = "trailer"
            /\ op.err = "") =>
        /\ Len(log) = FirstFinal(gz.blocks)
        /\ op.at = Boundary(gz.blocks[Len(log)].end)

C10_Witness ==
    /\ op.name = "trailer"
    /\ outcome = "ok"
    /\ Len(log) = 2
    /\ log[1].at = 8 * gz.deflate
    /\ op.at > log[2].end


\* the input does not begin with 0x1f 0x8b, or its third byte is not 8
WrongStart ==
    \/ InputSlice(gz, 0, Min(2, InputLen(gz))) # <<31, 139>>
    \/ InputLen(gz) >= 3 /\ InputAt(gz, 2) # 8

\* C11: when the input does not begin with 0x1f 0x8b, or its third byte is
\* not 8, decompress goes no further than the method check, ends with an
\* error, and nothing is ever written to the sink.
C11_WrongStartIsAnError ==
    WrongStart =>
        /\ pc \in {"magic", "method", "done"}
        /\ pc = "done" => outcome = "err"
        /\ writer.writer = <<>>

\* C11's case: the magic number is right and read whole, the method is 0
C11_Witness ==
    /\ WrongStart
    /\ InputLen(gz) >= 3
    /\ InputSlice(gz, 0, 3) = <<31, 139, 0>>
    /\ pc = "done"
    /\ op.name = "method"
    /\ op.err = "wrong compression method detected"

\* the header of the stream has a name, a comment or a CRC16
HasOptional ==
    \/ GzipFlags_has_name(gz.flg)
    \/ GzipFlags_has_comment(gz.flg)
    \/ GzipFlags_has_crc(gz.flg)

\* the stream with the same blocks and the rest of the header, and none of
\* FNAME, FCOMMENT, FHCRC
WithoutOptional ==
    Stream(gz.flg - (IF GzipFlags_has_name(gz.flg) THEN 8 ELSE 0)
                  - (IF GzipFlags_has_comment(gz.flg) THEN 16 ELSE 0)
                  - (IF GzipFlags_has_crc(gz.flg) THEN 2 ELSE 0),
           gz.xlen,
           [i \in 1..Len(gz.blocks) |->
                [kind |-> gz.blocks[i].kind, n |-> gz.blocks[i].n,
                 final |-> gz.blocks[i].final]],
           gz.isize_off)

\* C12 (as claimed): name, comment and CRC16 are consumed when their flags
\* are set, so that the blocks are read from the first byte after the
\* header, and the run ends as the run over the stream without the three
\* fields does: the same result, the same bytes in the sink.
C12_OptionalFieldsDoNotChangeOutput ==
    HasOptional =>
        /\ op.name = "crc16" /\ pc = "block" => BitPos(reader) = 8 * gz.deflate
        /\ pc = "done" =>
            \A p \in {decompress(Started(Source(WithoutOptional.data,
                                                reader.reader.chunk)))} :
                /\ p.outcome = outcome
                /\ p.writer.writer = writer.writer

\* s after a back-reference of length n and distance d: n times, the byte
\* d positions before the end is appended
RECURSIVE CopyBack(_, _, _)
CopyBack(s, d, n) ==
    IF n = 0 THEN s ELSE CopyBack(Append(s, s[Len(s) - d + 1]), d, n - 1)

\* C13: a back-reference whose distance is at most the number of bytes
\* output so far (and at most 32768) copies from the byte that many
\* positions back in the output, whether an earlier stored, fixed or dynamic
\* block produced it (the fixed block of one back-reference of length 3) or
\* the same block did (the dynamic block: 'a', then length 3 from distance 1).
C13_BackReferenceReachesEarlierBlocks ==
    /\ (/\ ReadsDescribedBlock
        /\ gz.blocks[Len(log)].kind = "fixed_ref"
        /\ gz.blocks[Len(log)].n <= Min(Len(pre.writer), WindowSize))
        => /\ op.err = "" /\ op.panic = ""
           /\ writer.writer = CopyBack(pre.writer, gz.blocks[Len(log)].n, 3)
    /\ (ReadsDescribedBlock /\ gz.blocks[Len(log)].kind = "dynamic")
        => /\ op.err = "" /\ op.panic = ""
           /\ writer.writer = CopyBack(Append(pre.writer, 97), 1, 3)

\* C13's case: the second block copies 3 bytes from distance 2, out of the
\* two bytes of the stored block before it
C13_Witness ==
    /\ ReadsDescribedBlock
    /\ Len(log) = 2
    /\ gz.blocks[1].kind = "stored"
    /\ gz.blocks[2].kind = "fixed_ref"
    /\ gz.blocks[2].n = 2
    /\ writer.writer = <<66, 67, 66, 67, 66>>

---------------------------------------------------------------------------
(* SpecReader: any sequence of Reader operations on a Reader made by       *)
(* Reader::new over a small source.  writer is the destination handed to   *)
(* the last copy_to, pre the Reader before the last operation, total the   *)
(* number of bits next_bit has returned as long as nothing but next_bit    *)
(* was called (-1 from then on).                                           *)

\* a source holds 0..MaxData bytes
MaxData == 3
\* copy_to, skip and read are asked for 0..MaxCopy bytes
MaxCopy == 2

\* n bytes from v on, 85 apart: 129 214 43 ... or 90 175 4 ...
SourceBytes(v, n) == [i \in 1..n |-> (v + 85 * (i - 1)) % 256]

ReaderSources == {SourceBytes(v, n) : v \in {129, 90}, n \in 0..MaxData}

NoReaderOp ==
    [name |-> "", length |-> 0, bit |-> FALSE, byte |-> 0, bytes |-> <<>>,
     n |-> 0, err |-> ""]

InitReader ==
    \E data \in ReaderSources, chunk \in 0..MaxChunk :
        /\ gz = [data |-> data, zeros |-> 0, tail |-> <<>>]
        /\ writer = SinkWriter
        /\ reader = Reader_new(Source(data, chunk))
        /\ pc = "rd"
        /\ outcome = "running"
        /\ total = 0
        /\ flags = 0
        /\ op = NoReaderOp
        /\ pre = Reader_new(Source(data, chunk))
        /\ admitted = 0
        /\ log = <<>>
        /\ trie = BinaryTrie_new
        /\ cur = BinaryTrie_cursor(BinaryTrie_new)

RDNextBit ==
    /\ pc = "rd"
    /\ \E c \in {Reader_next_bit(reader)} :
        /\ reader' = c.self
        /\ op' = [NoReaderOp EXCEPT !.name = "next_bit", !.bit = c.bit,
                                    !.err = c.err]
        /\ total' = IF total >= 0 /\ c.err = "" THEN total + 1 ELSE total
    /\ pre' = reader
    /\ UNCHANGED <<trie, cur, gz, writer, pc, outcome, flags, admitted, log>>

RDNextByte ==
    /\ pc = "rd"
    /\ \E c \in {Reader_next_byte(reader)} :
        /\ reader' = c.self
        /\ op' = [NoReaderOp EXCEPT !.name = "next_byte", !.byte = c.byte,
                                    !.err = c.err]
    /\ pre' = reader
    /\ total' = -1
    /\ UNCHANGED <<trie, cur, gz, writer, pc, outcome, flags, admitted, log>>

RDEnsureByteBoundary ==
    /\ pc = "rd"
    /\ \E c \in {Reader_ensure_byte_boundary(reader)} :
        /\ reader' = c.self
        /\ op' = [NoReaderOp EXCEPT !.name = "ensure_byte_boundary",
                                    !.err = c.err]
    /\ pre' = reader
    /\ total' = -1
    /\ UNCHANGED <<trie, cur, gz, writer, pc, outcome, flags, admitted, log>>

\* copy_to(&mut &mut dst[..], length) with a dst of length bytes
RDCopyTo ==
    /\ pc = "rd"
    /\ \E length \in 0..MaxCopy :
       \E c \in {Reader_copy_to(reader, SliceWriter(length), length)} :
        /\ reader' = c.self
        /\ writer' = c.writer
        /\ op' = [NoReaderOp EXCEPT !.name = "copy_to", !.length = length,
                                    !.bytes = c.writer.data, !.n = c.n,
                                    !.err = c.err]
    /\ pre' = reader
    /\ total' = -1
    /\ UNCHANGED <<trie, cur, gz, pc, outcome, flags, admitted, log>>

RDSkip ==
    /\ pc = "rd"
    /\ \E length \in 0..MaxCopy :
       \E c \in {Reader_skip(reader, length)} :
        /\ reader' = c.self
        /\ op' = [NoReaderOp EXCEPT !.name = "skip", !.length = length,
                                    !.n = c.n, !.err = c.err]
    /\ pre' = reader
    /\ total' = -1
    /\ UNCHANGED <<trie, cur, gz, writer, pc, outcome, flags, admitted, log>>

\* <Reader as Read>::read(&mut buf) with a buf of length bytes
RDRead ==
    /\ pc = "rd"
    /\ \E length \in 0..MaxCopy :
       \E c \in {Reader_read(reader, length)} :
        /\ reader' = c.reader
        /\ op' = [NoReaderOp EXCEPT !.name = "read", !.length = length,
                                    !.bytes = c.bytes, !.n = Len(c.bytes)]
    /\ pre' = reader
    /\ total' = -1
    /\ UNCHANGED <<trie, cur, gz, writer, pc, outcome, flags, admitted, log>>

NextReader ==
    \/ RDNextBit
    \/ RDNextByte
    \/ RDEnsureByteBoundary
    \/ RDCopyTo
    \/ RDSkip
    \/ RDRead

SpecReader == InitReader /\ [][NextReader]_vars

\* Reader r holds source byte i in `current`, with p bits of it consumed
Loaded(r, i, p) ==
    /\ i >= 0 /\ i < InputLen(gz)
    /\ r.reader.off = i + 1
    /\ r.pos = p
    /\ r.current = InputAt(gz, i)

\* Reader r is aligned on source byte j: it holds byte j with no bit
\* consumed, or j is the end of the source and r has found the end
AlignedOn(r, j) ==
    IF j < InputLen(gz) THEN Loaded(r, j, 0)
    ELSE r.reader.off = InputLen(gz) /\ r.pos = 8

\* C14 (as claimed): on a Reader fresh from Reader::new, the k-th call of
\* next_bit (k = 0, 1, ...) returns bit k mod 8 of source byte k div 8,
\* counted from the least significant bit, for as long as the source has
\* that byte; the first call returns bit 0 of the first byte.
C14_KthCallReturnsKthBit ==
    (/\ op.name = "next_bit"
     /\ total >= 0
     /\ (IF op.err = "" THEN total - 1 ELSE total) < 8 * InputLen(gz))
        => /\ op.err = ""
           /\ op.bit = (InputBit(total - 1) = 1)

\* C15: next_bit on a Reader that holds the last source byte with 7 bits
\* consumed returns its most significant bit without error (the fetch that
\* follows finds the end, which is no error); a Reader that has found the
\* end fails every next_bit, and stays as it is.
C15_LastBitThenFinished ==
    /\ (op.name = "next_bit" /\ Loaded(pre, InputLen(gz) - 1, 7))
        => /\ op.err = ""
           /\ op.bit = (InputBit(8 * InputLen(gz) - 1) = 1)
           /\ AlignedOn(reader, InputLen(gz))
    /\ (op.name = "next_bit" /\ pre.pos >= 8)
        => /\ op.err = "finished"
           /\ reader = pre

\* C15's case: the most significant bit of the last byte, a 1, is returned,
\* and the Reader is at the end
C15_Witness ==
    /\ op.name = "next_bit"
    /\ Loaded(pre, InputLen(gz) - 1, 7)
    /\ op.bit
    /\ reader.pos = 8

\* the byte next_byte is to return from Reader r, which holds a source
\* byte: that byte when no bit of it is consumed, the one after it otherwise
ByteToReturn(r) == IF r.pos = 0 THEN r.reader.off - 1 ELSE r.reader.off

\* C16: next_byte on a Reader that holds source byte i with p bits of it
\* consumed (0 <= p <= 7) returns byte i when p = 0 and byte i + 1 when
\* p > 0, and leaves the Reader aligned on the byte after the one returned;
\* it fails when the source has no such byte.
C16_NextByteSkipsPartialByte ==
    (/\ op.name = "next_byte"
     /\ pre.pos <= 7
     /\ Loaded(pre, pre.reader.off - 1, pre.pos))
        => IF ByteToReturn(pre) < InputLen(gz)
           THEN /\ op.err = ""
                /\ op.byte = InputAt(gz, ByteToReturn(pre))
                /\ AlignedOn(reader, ByteToReturn(pre) + 1)
           ELSE op.err # ""

\* C16's case: 3 bits of byte 0 are consumed, next_byte returns byte 1 and
\* the Reader holds byte 2
C16_Witness ==
    /\ op.name = "next_byte"
    /\ Loaded(pre, 0, 3)
    /\ InputLen(gz) = 3
    /\ op.err = ""
    /\ op.byte = InputAt(gz, 1)
    /\ Loaded(reader, 2, 0)

\* C17 (as claimed): copy_to(dst, n) and skip(n) on a Reader aligned on
\* source byte i (byte i loaded, no bit of it consumed), with bytes
\* i .. i+n-1 in the source, report n bytes, deliver exactly those bytes to
\* dst, in order, and leave the Reader aligned on byte i + n.
C17_BulkReadStartsAtLoadedByte ==
    (/\ op.name \in {"copy_to", "skip"}
     /\ Loaded(pre, pre.reader.off - 1, 0)
     /\ pre.reader.off - 1 + op.length <= InputLen(gz))
        => /\ op.err = ""
           /\ op.n = op.length
           /\ op.name = "copy_to"
                => op.bytes = InputSlice(gz, pre.reader.off - 1,
                                         pre.reader.off - 1 + op.length)
           /\ AlignedOn(reader, pre.reader.off - 1 + op.length)

---------------------------------------------------------------------------
(* SpecRB: push and copy_from *)

\* C18: after n push operations and nothing else (the bytes pushed are
\* 0, 1, ..., n-1) the logical content of the buffer, first ++ second of
\* as_slices, is the last min(n, capacity) bytes pushed, in push order; and
\* a push on a full buffer, whatever filled it, drops the oldest byte and
\* appends the new one.
C18_PushKeepsLastBytes ==
    /\ total >= 0
        => Window(writer.ringbuf)
            = LastN(Ramp(0, total), Min(total, RingBuffer_capacity(writer.ringbuf)))
    /\ (op.name = "push" /\ RingBuffer_is_wrapped(pre.ringbuf))
        => Window(writer.ringbuf) = Append(Tail(Window(pre.ringbuf)), op.a)

\* C18's case: more pushes than the capacity, and nothing else: the first
\* byte pushed is gone
C18_Witness ==
    /\ total > RingBuffer_capacity(writer.ringbuf)
    /\ op.name = "push"
    /\ Window(writer.ringbuf) = Ramp(total - Cap, Cap)

\* C19: in every state that push, copy_from (whether it returned Ok or Err)
\* and copy_within reach, the storage never outgrows the capacity it was
\* made with, so that capacity() is the construction size; next is in
\* 0..capacity-1; len() is the number of bytes admitted or the capacity,
\* whichever is less; and while the buffer is not wrapped next is the
\* number of bytes stored.
C19_RingBufferInvariants ==
    outcome # "panic" =>
        /\ Len(writer.ringbuf.buf) <= Cap
        /\ RingBuffer_capacity(writer.ringbuf) = Cap
        /\ 0 <= writer.ringbuf.next
        /\ writer.ringbuf.next < RingBuffer_capacity(writer.ringbuf)
        /\ RingBuffer_len(writer.ringbuf)
            = Min(admitted, RingBuffer_capacity(writer.ringbuf))
        /\ ~RingBuffer_is_wrapped(writer.ringbuf)
            => writer.ringbuf.next = Len(writer.ringbuf.buf)

\* C19's case: a copy_from that failed after it had filled the storage
C19_Witness ==
    /\ op.name = "copy_from"
    /\ op.err # ""
    /\ ~RingBuffer_is_wrapped(pre.ringbuf)
    /\ RingBuffer_is_wrapped(writer.ringbuf)
    /\ writer.ringbuf.next = 0

\* rb after the bytes of s are pushed one by one
RECURSIVE PushAll(_, _)
PushAll(rb, s) ==
    IF s = <<>> THEN rb ELSE PushAll(RingBuffer_push(rb, Head(s)), Tail(s))

\* the last operation was copy_from(src, n) with n <= capacity and a
\* source of at least n bytes
ValidCopyFrom ==
    /\ op.name = "copy_from"
    /\ op.length <= RingBuffer_capacity(pre.ringbuf)
    /\ Len(op.data) >= op.length

\* C20: copy_from(src, n) with 0 <= n <= capacity and at least n bytes in
\* the source returns Ok and leaves the buffer (storage and next) as pushing
\* the first n bytes of the source one by one does; the two slices it
\* returns are, one after the other, those n bytes, and the second is empty
\* when the write ended at or before the end of the storage.
C20_CopyFromIsRepeatedPush ==
    ValidCopyFrom =>
        /\ op.err = "" /\ op.panic = ""
        /\ writer.ringbuf = PushAll(pre.ringbuf, SubSeq(op.data, 1, op.length))
        /\ op.first \o op.second = SubSeq(op.data, 1, op.length)
        /\ pre.ringbuf.next + op.length <= RingBuffer_capacity(pre.ringbuf)
            => op.second = <<>>

\* C20's case: a wrapped buffer whose cursor is inside the storage takes as
\* many bytes as it holds, out of a longer source: the write wraps
C20_Witness ==
    /\ ValidCopyFrom
    /\ RingBuffer_is_wrapped(pre.ringbuf)
    /\ pre.ringbuf.next > 0
    /\ op.length = RingBuffer_capacity(pre.ringbuf)
    /\ Len(op.data) > op.length
    /\ op.err = ""
    /\ op.second # <<>>

\* C21: copy_from(src, n), n within the capacity, returns Err whenever the
\* source holds fewer than n bytes; it does not abort.
C21_ShortSourceIsAnError ==
    (/\ op.name = "copy_from"
     /\ op.length <= RingBuffer_capacity(pre.ringbuf)
     /\ Len(op.data) < op.length)
        => /\ op.err # ""
           /\ op.panic = ""

\* C21's case: a full buffer with its cursor inside the storage is asked
\* for as many bytes as it holds, and the source has one less
C21_Witness ==
    /\ op.name = "copy_from"
    /\ RingBuffer_is_wrapped(pre.ringbuf)
    /\ pre.ringbuf.next > 0
    /\ op.length = RingBuffer_capacity(pre.ringbuf)
    /\ Len(op.data) = op.length - 1
    /\ op.err # ""
    /\ outcome = "err"

\* C22: on a wrapped buffer copy_within(C, L), C the capacity and
\* 1 <= L <= C, leaves every cell of the storage as it was, advances next by
\* L modulo C, and returns the L oldest bytes of the window, in order.
C22_FullDistanceCopiesWindowForward ==
    (/\ op.name = "copy_within"
     /\ RingBuffer_is_wrapped(pre.ringbuf)
     /\ op.a = RingBuffer_capacity(pre.ringbuf)
     /\ op.length >= 1
     /\ op.length <= RingBuffer_capacity(pre.ringbuf))
        => /\ op.panic = ""
           /\ writer.ringbuf.buf = pre.ringbuf.buf
           /\ writer.ringbuf.next
                = (pre.ringbuf.next + op.length) % RingBuffer_capacity(pre.ringbuf)
           /\ op.first \o op.second = SubSeq(Window(pre.ringbuf), 1, op.length)

\* C22's case: the cursor is inside the storage and the whole window is
\* copied, so that the write wraps and ends where it began
C22_Witness ==
    /\ op.name = "copy_within"
    /\ RingBuffer_is_wrapped(pre.ringbuf)
    /\ pre.ringbuf.next > 0
    /\ op.a = RingBuffer_capacity(pre.ringbuf)
    /\ op.length = RingBuffer_capacity(pre.ringbuf)
    /\ op.second # <<>>
    /\ op.first \o op.second = Window(pre.ringbuf)
    /\ Cardinality({pre.ringbuf.buf[i] : i \in 1..Len(pre.ringbuf.buf)}) = Cap

---------------------------------------------------------------------------
(* SpecTrie: a BinaryTrie is filled by add calls, or made by one           *)
(* build_tree call, and is then read through a Cursor (which borrows it:   *)
(* no add while a Cursor lives).  log is the set of keys whose add         *)
(* succeeded, pre the trie before the last add.                            *)

\* keys are 0..MaxKeyLen bits long
MaxKeyLen == 3
\* no key is added to a trie that holds MaxKeys keys
MaxKeys == 2
\* build_tree gets the code lengths of 0..MaxSyms symbols
MaxSyms == 4
\* each of them 0..MaxBits
MaxBits == 3

\* the bits of TreeKey(key, len), bit len-1 first
KeyBits(key, len) == [i \in 1..len |-> get_bit(key, len - i)]

\* the value a key is added with
ValueOf(key, len) == 16 * len + key

NoTrieOp ==
    [name |-> "", key |-> 0, len |-> 0, value |-> 0, lengths |-> <<>>,
     bit |-> FALSE, from |-> <<>>, leaf |-> None, err |-> ""]

InitTrie ==
    /\ gz = NoGz
    /\ writer = Writer_new(<<>>, Cap)
    /\ reader = NoReader
    /\ pc = "add"
    /\ outcome = "running"
    /\ total = 0
    /\ flags = 0
    /\ op = NoTrieOp
    /\ pre = BinaryTrie_new
    /\ admitted = 0
    /\ log = {}
    /\ trie = BinaryTrie_new
    /\ cur = BinaryTrie_cursor(BinaryTrie_new)

TrieAdd ==
    /\ pc = "add"
    /\ \E len \in 0..MaxKeyLen :
       \E key \in 0..(2 ^ len - 1) :
       \E a \in {BinaryTrie_add(trie, key, len, ValueOf(key, len))} :
        /\ Cardinality(log) < MaxKeys \/ a.err # ""
        /\ trie' = a.tree
        /\ op' = [NoTrieOp EXCEPT !.name = "add", !.key = key, !.len = len,
                                  !.value = ValueOf(key, len), !.err = a.err]
        /\ log' = IF a.err = ""
                  THEN log \cup {[bits |-> KeyBits(key, len),
                                  value |-> ValueOf(key, len)]}
                  ELSE log
    /\ pre' = trie
    /\ UNCHANGED <<cur, gz, writer, reader, pc, outcome, total, flags, admitted>>

\* let tree = build_tree(lengths)?
TrieBuild ==
    /\ pc = "add"
    /\ op = NoTrieOp
    /\ \E n \in 0..MaxSyms :
       \E lengths \in [1..n -> 0..MaxBits] :
       \E b \in {build_tree(lengths)} :
        /\ trie' = b.tree
        /\ op' = [NoTrieOp EXCEPT !.name = "build_tree", !.lengths = lengths,
                                  !.err = b.err]
        /\ pc' = IF b.err = "" THEN "built" ELSE "done"
    /\ pre' = trie
    /\ UNCHANGED <<cur, gz, writer, reader, outcome, total, flags, admitted, log>>

\* let mut cursor = tree.cursor()
TrieCursor ==
    /\ pc \in {"add", "built", "walk"}
    /\ pc' = "walk"
    /\ cur' = BinaryTrie_cursor(trie)
    /\ op' = [NoTrieOp EXCEPT !.name = "cursor", !.lengths = op.lengths]
    /\ UNCHANGED <<trie, gz, writer, reader, outcome, total, flags, pre,
                   admitted, log>>

TrieFollow ==
    /\ pc = "walk"
    /\ \E bit \in BOOLEAN :
       \E f \in {Cursor_follow(trie, cur, bit)} :
        /\ cur' = f.cursor
        /\ op' = [NoTrieOp EXCEPT !.name = "follow", !.bit = bit, !.from = cur,
                                  !.leaf = f.leaf, !.err = f.err,
                                  !.lengths = op.lengths]
    /\ UNCHANGED <<trie, gz, writer, reader, pc, outcome, total, flags, pre,
                   admitted, log>>

NextTrie ==
    \/ TrieAdd
    \/ TrieBuild
    \/ TrieCursor
    \/ TrieFollow

SpecTrie == InitTrie /\ [][NextTrie]_vars

\* what a fresh Cursor returns for each of bits, followed in turn
RECURSIVE Walk(_, _, _, _)
Walk(tree, cursor, bits, acc) ==
    IF bits = <<>>
    THEN acc
    ELSE Bind(Cursor_follow(tree, cursor, Head(bits)), LAMBDA f :
            Walk(tree, f.cursor, Tail(bits),
                 Append(acc, [leaf |-> f.leaf, err |-> f.err])))

\* a fresh Cursor that follows bits gets InnerNode at every step but the
\* last, and LeafNode(v) at the last
ReadsAs(tree, bits, v) ==
    \A w \in {Walk(tree, BinaryTrie_cursor(tree), bits, <<>>)} :
        \A i \in 1..Len(bits) :
            /\ w[i].err = ""
            /\ w[i].leaf = IF i = Len(bits) THEN Some(v) ELSE None

\* the number of symbols of length L
CountOf(lengths, L) == Cardinality({i \in DOMAIN lengths : lengths[i] = L})

\* next_code[1] = 0, next_code[L] = (next_code[L-1] + count of L-1) * 2
RECURSIVE CanonicalFirst(_, _)
CanonicalFirst(lengths, L) ==
    IF L <= 1 THEN 0
    ELSE (CanonicalFirst(lengths, L - 1) + CountOf(lengths, L - 1)) * 2

\* the code of symbol n (counted from 0), whose length is not 0: the codes
\* of its length are consecutive, in symbol order
CanonicalCode(lengths, n) ==
    CanonicalFirst(lengths, At(lengths, n))
    + Cardinality({m \in 0..(n - 1) : At(lengths, m) = At(lengths, n)})

\* sum of 2^(max - L) over the symbols of length L > 0, to compare with 2^max
KraftSum(lengths, max) ==
    LET RECURSIVE Sum(_)
        Sum(i) == IF i = 0 THEN 0
                  ELSE Sum(i - 1)
                       + (IF lengths[i] > 0 THEN 2 ^ (max - lengths[i]) ELSE 0)
    IN  Sum(Len(lengths))

\* the leaves of a trie
Leaves(tree) == {node \in DOMAIN tree : tree[node] # None}

\* C23: build_tree of a code length vector that does not claim more codes
\* than there are (Kraft sum at most 1) succeeds, and the tree it returns
\* holds exactly the canonical code: symbol n of length L > 0 is the leaf at
\* the L bits, most significant first, of next_code[L] + (the number of
\* symbols before n of length L), and a Cursor that follows those bits
\* returns LeafNode(n) at the last of them.
C23_BuildTreeIsCanonical ==
    (/\ op.name = "build_tree"
     /\ Len(op.lengths) > 0
     /\ KraftSum(op.lengths, MaxBits) <= 2 ^ MaxBits)
        => /\ op.err = ""
           /\ \A n \in 0..(Len(op.lengths) - 1) :
                At(op.lengths, n) > 0 =>
                    /\ KeyBits(CanonicalCode(op.lengths, n), At(op.lengths, n))
                        \in Leaves(trie)
                    /\ ReadsAs(trie,
                               KeyBits(CanonicalCode(op.lengths, n),
                                       At(op.lengths, n)),
                               n)
           /\ Cardinality(Leaves(trie))
                = Cardinality({i \in DOMAIN op.lengths : op.lengths[i] > 0})

\* C23's case: lengths 2, 1, 3, 3 give the codes 10, 0, 110, 111
C23_Witness ==
    /\ op.name = "build_tree"
    /\ op.lengths = <<2, 1, 3, 3>>
    /\ op.err = ""
    /\ trie[<<TRUE, FALSE>>] = Some(0)
    /\ trie[<<FALSE>>] = Some(1)
    /\ trie[<<TRUE, TRUE, FALSE>>] = Some(2)
    /\ trie[<<TRUE, TRUE, TRUE>>] = Some(3)

\* a is b, or the beginning of b
IsPrefix(a, b) == Len(a) <= Len(b) /\ SubSeq(b, 1, Len(a)) = a

\* the key of the last add is an existing key, the beginning of one, or
\* goes on from one
Collides ==
    \E e \in Leaves(pre) :
        \/ IsPrefix(KeyBits(op.key, op.len), e)
        \/ IsPrefix(e, KeyBits(op.key, op.len))

Followed == IF op.name = "follow" /\ op.err = "" THEN Append(op.from, op.bit) ELSE <<>>

\* C25: for every key added with success, with value v, a fresh Cursor
\* that follows the key's bits from bit length-1 down to bit 0 gets
\* InnerNode at each of the first length-1 steps and LeafNode(v) at the
\* last; so a follow in a trie made by add calls returns LeafNode(v) when
\* the bits followed so far are a key added with v, and InnerNode otherwise.
C25_CursorFindsAddedKeys ==
    /\ \A k \in log : ReadsAs(trie, k.bits, k.value)
    /\ (op.name = "follow" /\ op.err = "" /\ Leaves(trie) = {k.bits : k \in log})
        => op.leaf = IF \E k \in log : k.bits = Followed
                     THEN Some((CHOOSE k \in log : k.bits = Followed).value)
                     ELSE None

\* C25's case: the Cursor has followed the bits of a key of full length and
\* has got its value
C25_Witness ==
    /\ op.name = "follow"
    /\ op.err = ""
    /\ Len(Followed) = MaxKeyLen
    /\ \E k \in log : k.bits = Followed /\ op.leaf = Some(k.value)
    /\ Cardinality(log) = MaxKeys

\* the code lengths are a complete code: their Kraft sum is exactly 1
Complete(lengths) ==
    Len(lengths) > 0 /\ KraftSum(lengths, MaxBits) = 2 ^ MaxBits

\* a fresh Cursor that follows bits reaches a leaf, with no error on the way
ReachesLeaf(tree, bits) ==
    \A w \in {Walk(tree, BinaryTrie_cursor(tree), bits, <<>>)} :
        \E j \in 1..Len(bits) :
            /\ w[j].leaf # None
            /\ \A i \in 1..j : w[i].err = ""

\* C26: follow returns an error, and the Cursor stays on its node, when the
\* child asked for does not exist or the Cursor stands on a leaf; a tree
\* that build_tree made from a complete code (Kraft sum exactly 1) takes a
\* Cursor along every bit sequence of the greatest code length to a leaf
\* without an error, so there follow fails only from a leaf.
C26_FollowFailsOnlyOffTheTree ==
    /\ (/\ op.name = "follow"
        /\ \/ Child(op.from, op.bit) \notin DOMAIN trie
           \/ op.from \in Leaves(trie))
        => /\ op.err # ""
           /\ cur = op.from
    /\ (op.name = "build_tree" /\ Complete(op.lengths))
        => /\ op.err = ""
           /\ \A bits \in [1..MaxOf(op.lengths) -> BOOLEAN] :
                ReachesLeaf(trie, bits)
    /\ (op.name = "follow" /\ Complete(op.lengths) /\ op.from \notin Leaves(trie))
        => op.err = ""

\* C26's case: in the tree of the complete code 1, 2, 2 the Cursor has
\* reached a leaf, and the next follow fails and leaves it there
C26_Witness ==
    /\ op.name = "follow"
    /\ op.lengths = <<1, 2, 2>>
    /\ op.from \in Leaves(trie)
    /\ Len(op.from) = 2
    /\ op.err # ""
    /\ cur = op.from

---------------------------------------------------------------------------
(* SpecLengths: the code lengths of one dynamic block, read by             *)
(* decompress_dynamic with the code length tree of the block.              *)

\* the code lengths end with 0..MaxTail code length symbols of any kind
MaxTail == 2
\* before them, zeros up to the last 0..MaxBack literal/length code lengths
MaxBack == 6
\* HLIT is 0..MaxHLit: 257 literal/length codes and up
MaxHLit == 1
\* HDIST is 0..MaxHDist: 1 distance code and up
MaxHDist == 2

\* The code lengths of the code length code, a complete code: 4 bits for
\* the symbols 0..12 and 5 bits for 13..18
CodeLengthCode == [j \in 1..19 |-> IF j <= 13 THEN 4 ELSE 5]

\* a code length symbol with its extra bits, as the block holds it
Item(sym, extra) == [sym |-> sym, extra |-> extra]

ItemBits(item) ==
    MSB(CanonicalCode(CodeLengthCode, item.sym), At(CodeLengthCode, item.sym))
    \o LSB(item.extra,
           CASE item.sym = 16 -> 2 [] item.sym = 17 -> 3 [] item.sym = 18 -> 7
             [] OTHER -> 0)

RECURSIVE ItemsBits(_)
ItemsBits(items) ==
    IF items = <<>> THEN <<>> ELSE ItemBits(Head(items)) \o ItemsBits(Tail(items))

\* n zeros, 149 <= n <= 265, as two symbols 18
Lead(n) == <<Item(18, 127), Item(18, n - 149)>>

TailItems ==
    {Item(0, 0), Item(3, 0), Item(16, 0), Item(16, 3), Item(17, 0), Item(17, 7),
     Item(18, 0)}

\* the code lengths of a block: zeros and a tail, or a tail alone
LengthItems ==
    UNION {{lead \o tail : lead \in {<<>>} \cup {Lead(257 - b) : b \in 0..MaxBack}} :
            tail \in UNION {[1..k -> TailItems] : k \in 0..MaxTail}}

\* the bytes of the items; the last byte is filled with ones, which are the
\* beginning of a symbol 18
LengthBytes(items) ==
    Bind(ItemsBits(items), LAMBDA bits :
        Pack(bits \o [i \in 1..((8 - (Len(bits) % 8)) % 8) |-> 1]))

NoLengthsOp ==
    [name |-> "", items |-> <<>>, hlit |-> 0, hdist |-> 0, lit |-> <<>>,
     dist |-> <<>>, bits |-> 0, err |-> "", panic |-> ""]

\* the reader stands on the first bit of the first code length symbol
InitLengths ==
    \E items \in LengthItems :
        /\ gz = [data |-> LengthBytes(items), zeros |-> 0, tail |-> <<>>,
                 items |-> items]
        /\ writer = Writer_new(<<>>, Cap)
        /\ reader = Reader_read_next_byte(
                        Reader_new(Source(LengthBytes(items), 0))).self
        /\ pc = "lengths"
        /\ outcome = "running"
        /\ total = 0
        /\ flags = 0
        /\ op = NoLengthsOp
        /\ pre = 0
        /\ admitted = 0
        /\ log = <<>>
        /\ trie = build_tree(CodeLengthCode).tree
        /\ cur = BinaryTrie_cursor(BinaryTrie_new)

ReadLengths ==
    /\ pc = "lengths"
    /\ \E h \in 0..MaxHLit, d \in 0..MaxHDist :
        \E rl \in {DynamicLengths(reader, trie, h + 257, d + 1)} :
            /\ reader' = rl.reader
            /\ op' = [name |-> "lengths", items |-> gz.items, hlit |-> h + 257,
                      hdist |-> d + 1, lit |-> rl.lit, dist |-> rl.dist,
                      bits |-> BitPos(rl.reader), err |-> rl.err,
                      panic |-> rl.panic]
            /\ pc' = "done"
            /\ outcome' = IF rl.err = "" /\ rl.panic = "" THEN "ok" ELSE "err"
    /\ UNCHANGED <<gz, writer, total, flags, pre, admitted, log, trie, cur>>

NextLengths == ReadLengths

SpecLengths == InitLengths /\ [][NextLengths]_vars

\* What the symbols of items stand for: a symbol 0..15 is that length and
\* the previous length from then on; 16 is the previous length 3 + extra
\* times; 17 and 18 are 3 + extra and 11 + extra zeros and make the previous
\* length 0. ok is FALSE when a 16 has no previous length.
RECURSIVE Expansion(_, _, _)
Expansion(items, out, prev) ==
    IF items = <<>>
    THEN [out |-> out, ok |-> TRUE]
    ELSE Bind(Head(items), LAMBDA it :
        CASE it.sym <= 15 ->
                Expansion(Tail(items), Append(out, it.sym), <<it.sym>>)
          [] it.sym = 16 ->
                IF prev = <<>>
                THEN [out |-> out, ok |-> FALSE]
                ELSE Expansion(Tail(items),
                               out \o [i \in 1..(3 + it.extra) |-> prev[1]], prev)
          [] it.sym = 17 ->
                Expansion(Tail(items), out \o Zeros(3 + it.extra), <<0>>)
          [] it.sym = 18 ->
                Expansion(Tail(items), out \o Zeros(11 + it.extra), <<0>>))

\* the first k items stand for exactly n code lengths
ExpandsTo(items, k, n) ==
    \A e \in {Expansion(SubSeq(items, 1, k), <<>>, <<>>)} :
        e.ok /\ Len(e.out) = n

\* C27: the code length symbols of a dynamic block are expanded as RFC 1951
\* says (0..15 a length, 16 the previous length 3..6 times, 17 and 18 zeros
\* 3..10 and 11..138 times, after which the previous length is 0), and when
\* the symbols stand for exactly HLIT + HDIST lengths these are produced, the
\* first HLIT as the literal/length vector and the rest as the distance
\* vector, reading no bit beyond the last symbol used.
C27_CodeLengthsAreExpanded ==
    (op.name = "lengths")
        => /\ (op.err = "" /\ op.panic = "")
                => \E k \in 1..Len(op.items) :
                    ExpandsTo(op.items, k, op.hlit + op.hdist)
           /\ \A k \in 1..Len(op.items) :
            ExpandsTo(op.items, k, op.hlit + op.hdist)
            => \A e \in {Expansion(SubSeq(op.items, 1, k), <<>>, <<>>)} :
                /\ op.err = "" /\ op.panic = ""
                /\ op.lit \o op.dist = e.out
                /\ Len(op.lit) = op.hlit
                /\ Len(op.dist) = op.hdist
                /\ op.bits = Len(ItemsBits(SubSeq(op.items, 1, k)))

\* C27's case: after 254 zeros the symbols 3 and 16 (extra 0) make the
\* literal/length vector end in 3, 3, 3 and the distance vector 3
C27_Witness ==
    /\ op.name = "lengths"
    /\ op.items = Lead(254) \o <<Item(3, 0), Item(16, 0)>>
    /\ op.hlit = 257 /\ op.hdist = 1
    /\ op.err = ""
    /\ op.lit = Zeros(254) \o <<3, 3, 3>>
    /\ op.dist = <<3>>

\* C28: a dynamic block whose first code length symbol is 16 has no previous
\* length to repeat: decoding fails with an error, at that symbol (its 5
\* bits and its 2 extra bits are the last bits read), and no code length
\* vector is made.
C28_RepeatWithoutPreviousIsAnError ==
    (op.name = "lengths" /\ op.items # <<>> /\ op.items[1].sym = 16)
        => /\ op.err # ""
           /\ op.panic = ""
           /\ outcome = "err"
           /\ op.bits = Len(ItemBits(op.items[1]))
           /\ op.lit = <<>> /\ op.dist = <<>>

\* C28's case: the code lengths begin with 16 (extra 3: six times) and go
\* on with the length 3
C28_Witness ==
    /\ op.name = "lengths"
    /\ op.items = <<Item(16, 3), Item(3, 0)>>
    /\ op.err = "no previous value"
    /\ op.bits = 7

\* the last step read a stored block of which the input holds LEN and NLEN,
\* and NLEN is not the complement of LEN
StoredBlockWithWrongNlen ==
    /\ BlockRead
    /\ InputBType = 0
    /\ LenAt + 4 <= InputLen(gz)
    /\ from_le_bytes(InputBytes(LenAt, LenAt + 2))
        + from_le_bytes(InputBytes(LenAt + 2, LenAt + 4)) # 65535

\* C29: a stored block whose NLEN is not the one's complement of LEN ends
\* decompress with an error, and none of its payload bytes is written to the
\* sink or admitted to the window: the writer is as it was before the block.
C29_WrongNlenIsAnError ==
    StoredBlockWithWrongNlen =>
        /\ op.err # "" /\ op.panic = ""
        /\ outcome = "err" /\ pc = "done"
        /\ op.n = 0
        /\ writer = pre

\* C29's case: the second block of the stream is a stored block of two
\* bytes with a wrong NLEN, read after a block that gave output
C29_Witness ==
    /\ ReadsDescribedBlock
    /\ Len(log) = 2
    /\ gz.blocks[2].kind = "stored_nlen"
    /\ gz.blocks[2].n = 2
    /\ StoredBlockWithWrongNlen
    /\ Len(pre.writer) > 0
    /\ op.err = "inconsistency between LEN and NLEN bytes"
    /\ writer = pre

\* where LEN of a stored block whose header begins at bit p lies, in bytes
LenAfter(p) == (p + 3 + 7) \div 8

\* the i-th block read is a stored block with LEN = 0 and NLEN = 0xFFFF,
\* which the input holds in full
EmptyStoredBlock(i) ==
    /\ i \in 1..Len(log)
    /\ log[i].at + 3 <= 8 * InputLen(gz)
    /\ InputBit(log[i].at + 1) + 2 * InputBit(log[i].at + 2) = 0
    /\ LenAfter(log[i].at) + 4 <= InputLen(gz)
    /\ InputBytes(LenAfter(log[i].at), LenAfter(log[i].at) + 4)
        = <<0, 0, 255, 255>>

\* C30: a stored block with LEN = 0 and NLEN = 0xFFFF gives no output and no
\* error; it ends with the last byte of NLEN, which is the 4th byte after the
\* byte boundary that follows its header, and the next block header, or the
\* trailer, is read from the byte after NLEN.
C30_EmptyStoredBlock ==
    /\ (op.name = "block" /\ EmptyStoredBlock(Len(log))) =>
        /\ op.err = "" /\ op.panic = ""
        /\ op.n = 0
        /\ writer = pre
        /\ outcome = "running"
        /\ BitPos(reader) = 8 * (LenAfter(op.at) + 4)
    /\ \A i \in 1..Len(log) :
        EmptyStoredBlock(i) =>
            /\ log[i].ok
            /\ log[i].end = 8 * (LenAfter(log[i].at) + 4)
            /\ i < Len(log) => log[i + 1].at = 8 * (LenAfter(log[i].at) + 4)
            /\ (i = Len(log) /\ op.name = "trailer") =>
                op.at = 8 * (LenAfter(log[i].at) + 4)

\* C30's case: after a block that gave output, the final block is a stored
\* block with LEN = 0, and the trailer is read from the byte after NLEN
C30_Witness ==
    /\ op.name = "trailer"
    /\ outcome = "ok"
    /\ Len(log) = 2
    /\ total > 0
    /\ gz.blocks[2].kind = "stored" /\ gz.blocks[2].n = 0
    /\ EmptyStoredBlock(2)
    /\ op.at = 8 * (LenAfter(log[2].at) + 4)

\* the last step read a fixed Huffman block of the description that holds a
\* literal/length symbol 286 or 287, or a distance symbol 30 or 31
UnusedCodeRead ==
    /\ ReadsDescribedBlock
    /\ \/ gz.blocks[Len(log)].kind = "fixed_sym" /\ gz.blocks[Len(log)].n \in {286, 287}
       \/ gz.blocks[Len(log)].kind = "fixed_dist" /\ gz.blocks[Len(log)].n \in {30, 31}

\* C31: in a fixed Huffman block a literal/length symbol 286 or 287, or a
\* distance symbol 30 or 31, ends decompress with an error returned to the
\* caller: the program does not abort.
C31_UnusedCodeIsAnError ==
    UnusedCodeRead =>
        /\ outcome = "err"
        /\ op.err # ""
        /\ op.panic = ""

\* C32: an add that returns an error leaves the trie as it was before the
\* call: it has the same nodes, with the same values.
C32_FailedAddChangesNothing ==
    (op.name = "add" /\ op.err # "") =>
        /\ DOMAIN trie = DOMAIN pre
        /\ \A node \in DOMAIN pre : trie[node] = pre[node]

\* C32's case: a key of three bits is refused, after the loop of add has
\* followed a node, because it goes on from a key of one bit; and the trie
\* holds a second key
C32_Witness ==
    /\ op.name = "add"
    /\ op.len = 3
    /\ op.err # ""
    /\ <<get_bit(op.key, 2)>> \in Leaves(pre)
    /\ Cardinality(Leaves(pre)) = 2
    /\ trie = pre

---------------------------------------------------------------------------
(* SpecPair: one length and distance pair, read by read_compressed_data    *)
(* with the fixed trees.                                                   *)

\* the extra bits of length symbol c and of distance symbol d
LengthBits(c) == At(LENGTH_INFO, c - 257)[1]

DistBits(d) == At(DIST_INFO, d)[1]

\* A pair as the block holds it: length symbol c with the extra bits e,
\* distance symbol d with the extra bits f
PairBytes(c, e, d, f) ==
    Pack(Pad(FixedCode(c) \o LSB(e, LengthBits(c)) \o MSB(d, 5)
             \o LSB(f, DistBits(d))))

\* every length with the greatest distance, every distance with the
\* greatest length
Pairs ==
    {[c |-> c, e |-> e, d |-> 29, f |-> 2 ^ DistBits(29) - 1] :
        c \in 257..285, e \in 0..31}
    \cup {[c |-> 284, e |-> 2 ^ LengthBits(284) - 1, d |-> d, f |-> f] :
            d \in 0..29, f \in 0..(2 ^ 13 - 1)}

NoPairOp ==
    [name |-> "", length |-> 0, dist |-> 0, bits |-> 0, err |-> "", panic |-> ""]

\* the reader stands on the first bit of the length symbol
InitPair ==
    \E p \in Pairs :
        /\ p.e < 2 ^ LengthBits(p.c)
        /\ p.f < 2 ^ DistBits(p.d)
        /\ gz = [data |-> PairBytes(p.c, p.e, p.d, p.f), zeros |-> 0,
                 tail |-> <<>>, pair |-> p]
        /\ writer = Writer_new(<<>>, Cap)
        /\ reader = Reader_read_next_byte(
                        Reader_new(Source(PairBytes(p.c, p.e, p.d, p.f), 0))).self
        /\ pc = "pair"
        /\ outcome = "running"
        /\ total = 0
        /\ flags = 0
        /\ op = NoPairOp
        /\ pre = 0
        /\ admitted = 0
        /\ log = <<>>
        /\ trie = BinaryTrie_new
        /\ cur = BinaryTrie_cursor(BinaryTrie_new)

\* let c = read_next_code(reader, lit_tree)?; and the arm 257..=285 up to
\* the call of writer.copy_within
ReadPair ==
    /\ pc = "pair"
    /\ \E c \in {read_next_code(reader, LIT_TREE)} :
        /\ c.err = ""
        /\ c.v \in 257..285
        /\ \E ld \in {ReadLengthDistance(c.reader, c.v, DIST_TREE)} :
            /\ reader' = ld.reader
            /\ op' = [name |-> "pair", length |-> ld.length, dist |-> ld.dist,
                      bits |-> BitPos(ld.reader), err |-> ld.err,
                      panic |-> ld.panic]
            /\ outcome' = IF ld.err = "" /\ ld.panic = "" THEN "ok" ELSE "err"
    /\ pc' = "done"
    /\ UNCHANGED <<gz, writer, total, flags, pre, admitted, log, trie, cur>>

NextPair == ReadPair

SpecPair == InitPair /\ [][NextPair]_vars

\* C34: for every length symbol 257..285 with every value of its extra bits
\* the length is in 3..258, and for every distance symbol 0..29 with every
\* value of its extra bits the distance is in 1..32768: neither is above the
\* capacity of the window.
C34_LengthAndDistanceInRange ==
    /\ pc = "done" => op.name = "pair"
    /\ op.name = "pair" =>
        /\ op.err = "" /\ op.panic = ""
        /\ op.length \in 3..258
        /\ op.dist \in 1..32768
        /\ op.length <= WindowSize
        /\ op.dist <= WindowSize

\* C34's case: symbol 284 with the extra bits 31 and symbol 29 with the
\* extra bits 8191 are the longest copy from the farthest byte
C34_Witness ==
    /\ op.name = "pair"
    /\ gz.pair = [c |-> 284, e |-> 31, d |-> 29, f |-> 8191]
    /\ op.length = 258
    /\ op.dist = 32768
    /\ op.err = ""

\* the bytes the last step appended to the sink
Written == Len(writer.writer) - Len(pre.writer)

\* C35: the byte count that is compared with ISIZE is the number of bytes
\* written to the sink: each block decoder that succeeds returns the number
\* of bytes its block wrote (1 for a literal, the length for a
\* back-reference, LEN for a stored block), and the count is their sum.
C35_ByteCountIsBytesWritten ==
    /\ (op.name = "block" /\ op.err = "" /\ op.panic = "") =>
        /\ op.n = Written
        /\ total = Len(writer.writer)
        /\ ReadsDescribedBlock => op.n = Produces(gz.blocks[Len(log)])
    /\ pc = "trailer" => total = Len(writer.writer)
    /\ op.name = "trailer" =>
        /\ total = Len(writer.writer)
        /\ Written = 0

\* C35's case: the ISIZE check is passed after a literal and a
\* back-reference of length 3, read in two blocks: the count is 4
C35_Witness ==
    /\ op.name = "trailer"
    /\ outcome = "ok"
    /\ Len(log) = 2
    /\ gz.blocks[1].kind = "fixed_lit"
    /\ gz.blocks[2].kind = "fixed_ref"
    /\ total = 4
    /\ Len(writer.writer) = 4

\* the input is a stream cut short: the first bytes of gz.whole
IsCut == "whole" \in DOMAIN gz

\* decompress of the whole stream returns Ok and has read it to its last
\* byte, the last byte of ISIZE
WholeSucceeds ==
    \E w \in {decompress(Started(Source(gz.whole, 0)))} :
        /\ w.outcome = "ok"
        /\ BitPos(w.reader) = 8 * Len(gz.whole)

\* C36: when decompress succeeds on an input that ends with the last byte of
\* ISIZE, it returns an error on every input that is a shorter beginning of
\* it, the empty input too, wherever the cut is.
C36_TruncationIsAnError ==
    (IsCut /\ pc = "done" /\ WholeSucceeds) =>
        /\ outcome = "err"
        /\ op.err # ""
        /\ op.panic = ""

\* C36's case: the stream is cut inside the trailer, after its blocks were
\* decoded and gave output
C36_Witness ==
    /\ IsCut
    /\ pc = "done"
    /\ WholeSucceeds
    /\ op.name = "trailer"
    /\ Len(writer.writer) > 0
    /\ outcome = "err"
===========================================================================
